---- MODULE Spec2Model ----
(***************************************************************************)
(* A model of the result and diagnostics core of elisa:                    *)
(*   - the per-dataset diagnostic cache of src/elisa/plot/data.py          *)
(*     (_cache_method, _cache_method_with_check, PlotData.__init__ and the *)
(*     cached diagnostics of MLEPlotData);                                 *)
(*   - MLEResult.ci and MLEResult.boot of src/elisa/infer/analysis.py;     *)
(*   - the signs, the probability integral transform and the residuals of  *)
(*     MLEPlotData and PosteriorPlotData, as functions of the data and the *)
(*     models of one dataset;                                              *)
(*   - get_pit_ecdf, get_qq and PlotConfig of src/elisa/plot/plotter.py;   *)
(*   - build_namespace and progress_bar_factory of src/elisa/util/misc.py. *)
(*                                                                         *)
(* Numbers that are floats in the program (confidence levels) are kept in  *)
(* fixed point: the integer k stands for k / One.                          *)
(***************************************************************************)
EXTENDS Integers, Sequences, FiniteSets, TLC

\* ------------------------------------------------------------- bounds
\* identity tokens (addresses) an ensemble object can be given by id()
MaxAddr == 2
\* ensemble objects built during one run
MaxGen == 3
\* distinct replicate counts an ensemble can be built with
MaxN == 2
\* the largest number of counts in a channel
MaxCount == 1
\* the largest number of PIT values handed to get_pit_ecdf
MaxPits == 3

\* ---------------------------------------------------------- constants
\* the float 1.0 in fixed point: k stands for k / One
One == 1000
\* default cl of ce_model_ci, 0.683
DefaultCl == 683

VARIABLES
    boot,      \* the object MLEResult._boot references (NoObj: None)
    lastRepl,  \* ghost: "none", or whether the last replacement kept the values
    built,     \* PlotData instance -> constructed?
    old_id,    \* instance -> checked method -> identity captured by its wrapper
    cache,     \* instance -> key of a checked method -> functools.cache entry
    pure,      \* instance -> key of a pure method -> functools.cache entry
    ret,       \* what the last call of a diagnostic returned
    valid,     \* MLEResult._minuit.valid
    merrors,   \* MLEResult._minuit.merrors: free name -> last Minos result
    out,       \* what the last call of MLEResult.ci / MLEResult.boot did
    dset,      \* the data and the models of the dataset a PlotData is made for
    res,       \* what the last call of a sign, PIT or residual method gave
    bar,       \* the progress bar of progress_bar_factory and its devices
    config     \* the PlotConfig object and what the last operation on it did

cacheVars == <<lastRepl, built, old_id, cache, pure, ret>>
mleVars == <<valid, merrors, out>>
plotVars == <<dset, res>>
utilVars == <<bar, config>>
vars ==
    <<boot, lastRepl, built, old_id, cache, pure, ret, valid, merrors, out,
      dset, res, bar, config>>

\* ------------------------------------------------------ ensemble objects
\* addr: what id() gives; gen: which ensemble it is, in order of construction
\* (ghost); n: its replicate count, which with the owner's fixed seed decides
\* its values
Addr == 1..MaxAddr
NoObj == [addr |-> 0, gen |-> 0, n |-> 0]

\* id(getattr(instance, field)): the address of the object, id(None) for None
Id(obj) == obj.addr

\* ------------------------------------------------------- PlotData: keys
\* the sub-datasets of the fit result, one PlotData instance each
Inst == {"d1"}

NoArgs == <<>>
CheckedMethods == {"_sign_boot", "deviance_residuals_boot", "ce_model_ci"}
PureMethods == {"_sign_mle"}

\* argument tuples ce_model_ci is called with: () and (1.5,)
CiArgs == {NoArgs, <<1500>>}
ArgsOf(m) == IF m = "ce_model_ci" THEN CiArgs ELSE {NoArgs}

CKeys == {<<m, a>> : m \in {"_sign_boot", "deviance_residuals_boot"}, a \in {NoArgs}}
            \cup {<<"ce_model_ci", a>> : a \in CiArgs}
PKeys == {<<m, NoArgs>> : m \in PureMethods}
Keys == CKeys \cup PKeys

\* a functools.cache slot: n stands for the cached array (the replicate count
\* of the ensemble it was computed from, 0 for None and for point-estimate
\* values); srcs are the ensembles that were read to compute it (ghost)
Absent == [has |-> FALSE, n |-> 0, srcs |-> {}]
Entry(n, s) == [has |-> TRUE, n |-> n, srcs |-> s]

\* the state of one PlotData instance as its wrappers see it; done collects
\* the keys computed during one call (ghost)
InstState(i) ==
    [old_id |-> old_id[i], cache |-> cache[i], pure |-> pure[i], done |-> {}]

\* the state PlotData.__init__ leaves: every wrapper captured the identity of
\* the tracked field as it is then, every cache is empty
NewInstState(b) ==
    [old_id |-> [m \in CheckedMethods |-> Id(b)],
     cache |-> [k \in CKeys |-> Absent],
     pure |-> [k \in PKeys |-> Absent],
     done |-> {}]

\* what a call hands back: the instance state after it and the value
Returned(s, n, srcs) == [s |-> s, kind |-> "value", n |-> n, srcs |-> srcs]
Raised(s) == [s |-> s, kind |-> "raise", n |-> 0, srcs |-> {}]

\* the wrapper of _cache_method_with_check before it calls the cached method:
\* if the identity of the tracked field differs from the captured one, clear
\* this method's cache and capture the new identity
CheckIdsNoCapture(s, m, b) ==
    IF Id(b) # s.old_id[m]
    THEN [s EXCEPT !.cache = [k \in CKeys |-> IF k[1] = m THEN Absent ELSE s.cache[k]]]
    ELSE s
CheckIds(s, m, b) ==
    IF Id(b) # s.old_id[m]
    THEN [s EXCEPT !.cache = [k \in CKeys |-> IF k[1] = m THEN Absent ELSE s.cache[k]],
                   !.old_id[m] = Id(b)]
    ELSE s

\* functools.cache of a checked method: a hit returns the slot, a miss stores
\* what was computed
StoreChecked(s, k, n, srcs) ==
    Returned([s EXCEPT !.cache[k] = Entry(n, srcs), !.done = @ \cup {k}], n, srcs)
HitChecked(s, k) == Returned(s, s.cache[k].n, s.cache[k].srcs)

\* a pure method behind _cache_method (functools.cache, never cleared); the
\* value is computed from the point estimate alone
CallPure(s, k, b) ==
    IF s.pure[k].has
    THEN Returned(s, s.pure[k].n, s.pure[k].srcs)
    ELSE Returned([s EXCEPT !.pure[k] = Entry(0, {}), !.done = @ \cup {k}], 0, {})

\* MLEPlotData._sign_boot behind its wrapper: None without an ensemble, else
\* the sign array of the ensemble's data against the ensemble's models
Call_sign_boot(s, b) ==
    LET k == <<"_sign_boot", NoArgs>>
        s1 == CheckIds(s, "_sign_boot", b)
    IN  IF s1.cache[k].has
        THEN HitChecked(s1, k)
        ELSE StoreChecked(s1, k, b.n, {b.gen})

\* MLEPlotData.deviance_residuals_boot behind its wrapper: None without an
\* ensemble; else self.sign is evaluated, which calls _sign_mle() and then
\* _sign_boot() through their own wrappers, and the boot sign is multiplied
\* into the ensemble's deviance
Call_deviance_residuals_boot(s, b) ==
    LET k == <<"deviance_residuals_boot", NoArgs>>
        s1 == CheckIds(s, "deviance_residuals_boot", b)
    IN  IF s1.cache[k].has
        THEN HitChecked(s1, k)
        ELSE IF b = NoObj
        THEN StoreChecked(s1, k, 0, {b.gen})
        ELSE LET r1 == CallPure(s1, <<"_sign_mle", NoArgs>>, b)
                 r2 == Call_sign_boot(r1.s, b)
             IN  StoreChecked(r2.s, k, b.n, r2.srcs \cup {b.gen})

\* MLEPlotData.ce_model_ci behind its wrapper: None without an ensemble; else
\* cl must lie in (0, 1) (AssertionError: nothing is computed or cached), and
\* the value is the pair of quantiles of the ensemble's models at 0.5 -+ cl/2
ClOf(a) == IF a = NoArgs THEN DefaultCl ELSE a[1]
Call_ce_model_ci(s, b, a) ==
    LET k == <<"ce_model_ci", a>>
        s1 == CheckIds(s, "ce_model_ci", b)
    IN  IF s1.cache[k].has
        THEN HitChecked(s1, k)
        ELSE IF b = NoObj
        THEN StoreChecked(s1, k, 0, {b.gen})
        ELSE IF ~(0 < ClOf(a) /\ ClOf(a) < One)
        THEN Raised(s1)
        ELSE StoreChecked(s1, k, b.n, {b.gen})

CallOf(s, b, m, a) ==
    CASE m = "_sign_boot" -> Call_sign_boot(s, b)
      [] m = "deviance_residuals_boot" -> Call_deviance_residuals_boot(s, b)
      [] m = "ce_model_ci" -> Call_ce_model_ci(s, b, a)
      [] m = "_sign_mle" -> CallPure(s, <<m, a>>, b)

\* ghost: the keys whose slot holds a value computed since the tracked field
\* last changed (pure keys: computed at all)
Current(i) ==
    {k \in CKeys : cache[i][k].has /\ boot.gen \in cache[i][k].srcs}
        \cup {k \in PKeys : pure[i][k].has}

\* ret: the call made by the last step (kind "none" when it was no call) and
\* the value it returned with its sources; and three ghosts: recomputed, the
\* call ran the computation of its own key; wasCurrent, that key was current
\* before the call; redundant, the call (or a call nested in it) ran the
\* computation of a key that was current before it
NoRet == [inst |-> "", key |-> <<"", NoArgs>>, kind |-> "none", n |-> 0, srcs |-> {},
          recomputed |-> FALSE, wasCurrent |-> FALSE, redundant |-> FALSE]

\* ------------------------------------------------- MLEResult: the fit
\* names of the free parameters of the fit (_free_names), of the parameters
\* derived from them (_composite_params), of all parameters (_params_names)
\* and, in their order, of the parameters of interest (_interest_params)
FreeNames == {"a", "b"}
CompositeNames == {"f"}
ParamsNames == FreeNames \cup CompositeNames
InterestParams == <<"a", "b", "f">>

\* names a request can hold that are no parameter names
UnknownNames == {"x", "y"}

\* the keys of MLEResult._mle: the parameter names
MleKeys == ParamsNames

\* does an MLEResult instance have an attribute _simulator? No statement
\* assigns it (lines 374-375 are comments)
HasSimulator == FALSE

\* _minuit.values: the point estimate in the unconstrained space
Values == [k \in FreeNames |-> IF k = "a" THEN 10 * One ELSE 20 * One]

\* optfn.to_params_dict: the parameters (free and derived) of a point of the
\* unconstrained space
Transform(x) == 3 * x + One
ToParamsDict(u) ==
    [k \in ParamsNames |->
        IF k \in FreeNames THEN Transform(u[k])
        ELSE Transform(u["a"]) + Transform(u["b"])]

\* _result['params']: the parameters at the point estimate
ResultParams == ToParamsDict(Values)

\* 2 * norm.sf(cl) for cl at or above 1, rounded to the grid 1 / One
TwoSf(cl) ==
    CASE cl < 2 * One -> 317
      [] cl >= 2 * One /\ cl < 3 * One -> 46
      [] cl >= 3 * One /\ cl < 4 * One -> 3
      [] OTHER -> 0

\* the cl field of the result: cl_ = 1.0 - 2.0 * norm.sf(cl) if cl >= 1.0
\* else cl
NormalisedCl(cl) == IF cl >= One THEN One - TwoSf(cl) ELSE cl

\* chi2(1).ppf(p) on the grid, for the probabilities that are the mass of a
\* whole number of sigmas and for 0.9
Chi2Ppf(p) ==
    CASE p = 683 -> One
      [] p = 954 -> 4 * One
      [] p = 997 -> 9 * One
      [] p = 900 -> 2706
      [] OTHER -> p

\* Minuit.minos reads its cl: a value below 1 is a probability, a value at or
\* above 1 a number of sigmas; the result is the rise of the deviance that
\* bounds the interval
MinosLevel(cl) == IF cl >= One THEN (cl * cl) \div One ELSE Chi2Ppf(cl)

\* what a Minos search reports for one parameter beside the two offsets
Reports == {"ok", "lower_at_limit"}
\* every report of a search: fine, or one of its two ends met a limit of the
\* parameter, the cap of function calls, or a new minimum
AllReports ==
    Reports \cup {"upper_at_limit", "lower_at_max_fcn", "upper_at_max_fcn",
                  "lower_new_min", "upper_new_min"}
Flags(rep) ==
    [lower_valid |->
        rep \notin {"lower_at_limit", "lower_at_max_fcn", "lower_new_min"},
     upper_valid |->
        rep \notin {"upper_at_limit", "upper_at_max_fcn", "upper_new_min"},
     at_lower_limit |-> rep = "lower_at_limit",
     at_upper_limit |-> rep = "upper_at_limit",
     at_lower_max_fcn |-> rep = "lower_at_max_fcn",
     at_upper_max_fcn |-> rep = "upper_at_max_fcn",
     lower_new_min |-> rep = "lower_new_min",
     upper_new_min |-> rep = "upper_new_min"]

\* an entry of Minuit.merrors: the level it was searched at and the report;
\* the offsets of the two bounds from the estimate follow from the level
NoMError == [level |-> 0, rep |-> "none"]
MError(level, rep) == [level |-> level, rep |-> rep]
LowerOf(me) == 0 - me.level
UpperOf(me) == me.level + One

\* the entry of the status dict made from a Minos result
StatusOfCapAsLimit(me) ==
    [valid |-> <<Flags(me.rep).lower_valid, Flags(me.rep).upper_valid>>,
     at_limit |-> <<Flags(me.rep).at_lower_limit, Flags(me.rep).at_upper_limit>>,
     at_max_fcn |-> <<Flags(me.rep).at_lower_limit, Flags(me.rep).at_upper_limit>>,
     new_min |-> <<Flags(me.rep).lower_new_min, Flags(me.rep).upper_new_min>>]
StatusOf(me) ==
    [valid |-> <<Flags(me.rep).lower_valid, Flags(me.rep).upper_valid>>,
     at_limit |-> <<Flags(me.rep).at_lower_limit, Flags(me.rep).at_upper_limit>>,
     at_max_fcn |-> <<Flags(me.rep).at_lower_max_fcn, Flags(me.rep).at_upper_max_fcn>>,
     new_min |-> <<Flags(me.rep).lower_new_min, Flags(me.rep).upper_new_min>>]

\* ---------------------------------------------- MLEResult.ci: the request
\* the params argument: None, a str, a sequence of str, or anything else
NoneParams == [kind |-> "none", names |-> <<>>]
StrParams(s) == [kind |-> "str", names |-> <<s>>]
SeqParams(q) == [kind |-> "seq", names |-> q]
OtherParams == [kind |-> "other", names |-> <<>>]

\* [i for i in q if i in S], in the order of q
RECURSIVE FilterSeq(_, _)
FilterSeq(q, S) ==
    IF q = <<>> THEN <<>>
    ELSE IF Head(q) \in S THEN <<Head(q)>> \o FilterSeq(Tail(q), S)
    ELSE FilterSeq(Tail(q), S)

Range(q) == {q[i] : i \in 1..Len(q)}

\* the keys of {k: ... for k in q}: the names of q, each at its first place
RECURSIVE DictKeys(_)
DictKeys(q) ==
    IF q = <<>> THEN <<>>
    ELSE <<Head(q)>> \o DictKeys(FilterSeq(Tail(q), Range(q) \ {Head(q)}))

\* the names of a sequence that are no parameter names (lines 240-244)
FirstUnknownIn(q) ==
    LET u == FilterSeq(q, Range(q) \ ParamsNames)
    IN  IF u = <<>> THEN <<>> ELSE <<Head(u)>>
UnknownIn(q) == FilterSeq(q, Range(q) \ ParamsNames)

\* lines 227-250: the list of names the request stands for, or the error
Checked(names) == [kind |-> "ok", err |-> "", names |-> names]
Refused(err, names) == [kind |-> "raise", err |-> err, names |-> names]
CheckParams(p) ==
    CASE p.kind = "none" -> Checked(InterestParams)
      [] p.kind = "str" ->
            IF p.names[1] \notin ParamsNames
            THEN Refused("UnknownParameter", p.names)
            ELSE Checked(p.names)
      [] p.kind = "seq" ->
            IF UnknownIn(p.names) # <<>>
            THEN Refused("UnknownParameters", UnknownIn(p.names))
            ELSE Checked(p.names)
      [] OTHER -> Refused("ParamsType", <<>>)

\* ------------------------------------------------------ MLEResult.boot
\* the replicates of parameter k held by an ensemble of n replicates, sorted
Replicates(k, n) == [i \in 1..n |-> ResultParams[k] + (2 * i - n - 1) * One]

\* np.quantile(x, q) of a sorted array: linear interpolation between the two
\* elements around position q * (n - 1)
Quantile(x, q) ==
    LET n == Len(x)
        pos == q * (n - 1)
        i == pos \div One
        j == IF i + 2 > n THEN n ELSE i + 2
    IN  x[i + 1] + ((x[j] - x[i + 1]) * (pos % One)) \div One

\* result['valid'] of the batched refit of n replicates, the container of line
\* 393 as the refit leaves it: replicate i, simulated from the seed and i,
\* converges or not whatever the call; here every even replicate fails
ValidFlags(n) == [i \in 1..n |-> i % 2 = 1]

\* line 410: n_valid of a BootstrapResult, result['valid'].sum()
NValid(obj) == Cardinality({i \in 1..obj.n : ValidFlags(obj.n)[i]})

\* how a call ends: with a value, or with an exception; ran are the expensive
\* steps the call went through (ghost), boot and merrors the state it leaves
BootReturned(obj, ran) ==
    [kind |-> "return", err |-> "", obj |-> obj, boot |-> obj, ran |-> ran]
BootRaised(err, st, ran) ==
    [kind |-> "raise", err |-> err, obj |-> NoObj, boot |-> st.boot, ran |-> ran]

\* lines 378-416: after the validity check. A cached ensemble of the same n
\* is returned (every ensemble the owner builds carries the owner's seed, so
\* the comparison of the seeds holds); else line 381 looks up the attribute
\* _simulator, then the key 'constr' of _mle, then simulates and refits, and
\* the new object, allocated at address a, becomes the cached one
BootBody(n, a, st) ==
    IF st.boot # NoObj /\ st.boot.n = n
    THEN BootReturned(st.boot, {})
    ELSE IF ~HasSimulator
    THEN BootRaised("AttributeError", st, {})
    ELSE IF "constr" \notin MleKeys
    THEN BootRaised("KeyError", st, {})
    ELSE BootReturned([addr |-> a, gen |-> st.boot.gen + 1, n |-> n],
                      {"simulate", "refit"})

\* the addresses the object a call of boot(n) builds can get: it is built while
\* _boot still references the old one
Allocs(n, st) ==
    IF BootBody(n, 0, st).ran = {} THEN {0} ELSE Addr \ {st.boot.addr}

\* MLEResult.boot(n)
BootOutcomeLateCheck(n, a, st) ==
    LET r == BootBody(n, a, st)
    IN  IF ~st.valid /\ r.kind = "return"
        THEN BootRaised("NotConverged", [st EXCEPT !.boot = r.boot], r.ran)
        ELSE r
BootOutcome(n, a, st) ==
    IF ~st.valid
    THEN BootRaised("NotConverged", st, {})
    ELSE BootBody(n, a, st)

\* -------------------------------------------------------- MLEResult.ci
\* the ConfidenceInterval returned; keys is the order of the keys of mle,
\* interval and error
NoCI ==
    [keys |-> <<>>, mle |-> <<>>, interval |-> <<>>, error |-> <<>>,
     cl |-> 0, method |-> "", status |-> <<>>]

CiReturned(ci, st, ran) ==
    [kind |-> "ok", err |-> "", names |-> <<>>, ci |-> ci,
     merrors |-> st.merrors, boot |-> st.boot, ran |-> ran]
CiRaised(err, names, st, ran) ==
    [kind |-> "raise", err |-> err, names |-> names, ci |-> NoCI,
     merrors |-> st.merrors, boot |-> st.boot, ran |-> ran]

\* the default n of MLEResult.boot
DefaultBootN == 10000

\* the n handed to boot(): its default when ci got None (0)
BootN(n) == IF n = 0 THEN DefaultBootN ELSE n

IsProfileElse(method) == method # "boot"
IsProfile(method) == method = "profile"

\* the parameters Minuit.minos(*free_params) searches: the given ones, every
\* free parameter when none is given
Searched(free_params) ==
    IF free_params = <<>> THEN FreeNames ELSE Range(free_params)

\* line 265, Minuit.minos(*free_params, cl=cl): the merrors it leaves. rep is
\* what the searches report
Minos(free_params, level, rep, me) ==
    [k \in FreeNames |->
        IF k \in Searched(free_params) THEN MError(level, rep[k]) ELSE me[k]]

\* lines 275-280: the parameters at the lower (upper) ends of the requested
\* free parameters, the other free parameters at their estimate
LowerEndsJointShift(free_params, ci) ==
    ToParamsDict([k \in FreeNames |->
        IF k \in Range(free_params)
        THEN Values[k] + Len(DictKeys(free_params)) * LowerOf(ci[k])
        ELSE Values[k]])
LowerEnds(free_params, ci) ==
    ToParamsDict([k \in FreeNames |->
        IF k \in Range(free_params)
        THEN Values[k] + LowerOf(ci[k]) ELSE Values[k]])
UpperEnds(free_params, ci) ==
    ToParamsDict([k \in FreeNames |->
        IF k \in Range(free_params)
        THEN Values[k] + UpperOf(ci[k]) ELSE Values[k]])

\* lines 296-314: the search of each requested composite parameter, in a
\* Minuit of its own
MinosComposite(composite_params, level, rep) ==
    [p \in Range(composite_params) |-> MError(level, rep[p])]

\* lines 282-292, 315-322 and 342-354: the result made of the searches. ci is
\* _minuit.merrors after the search, cip the results for the composite
\* parameters, lo and up the ends of the free parameters
ProfileResultOffsetFromZero(params, cl, composite_params, ci, cip, lo, up) ==
    [keys |-> DictKeys(params),
     mle |-> [k \in Range(params) |-> ResultParams[k]],
     interval |-> [k \in Range(params) |->
        IF k \in FreeNames THEN <<lo[k], up[k]>>
        ELSE <<LowerOf(cip[k]), UpperOf(cip[k])>>],
     error |-> [k \in Range(params) |->
        IF k \in FreeNames
        THEN <<lo[k] - ResultParams[k], up[k] - ResultParams[k]>>
        ELSE <<LowerOf(cip[k]), UpperOf(cip[k])>>],
     cl |-> NormalisedCl(cl),
     method |-> "profile",
     status |-> [k \in {f \in FreeNames : ci[f] # NoMError}
                        \cup Range(composite_params) |->
        IF k \in FreeNames THEN StatusOf(ci[k]) ELSE StatusOf(cip[k])]]
ProfileResult(params, cl, composite_params, ci, cip, lo, up) ==
    [keys |-> DictKeys(params),
     mle |-> [k \in Range(params) |-> ResultParams[k]],
     interval |-> [k \in Range(params) |->
        IF k \in FreeNames THEN <<lo[k], up[k]>>
        ELSE <<ResultParams[k] + LowerOf(cip[k]),
               ResultParams[k] + UpperOf(cip[k])>>],
     error |-> [k \in Range(params) |->
        IF k \in FreeNames
        THEN <<lo[k] - ResultParams[k], up[k] - ResultParams[k]>>
        ELSE <<LowerOf(cip[k]), UpperOf(cip[k])>>],
     cl |-> NormalisedCl(cl),
     method |-> "profile",
     status |-> [k \in {f \in FreeNames : ci[f] # NoMError}
                        \cup Range(composite_params) |->
        IF k \in FreeNames THEN StatusOf(ci[k]) ELSE StatusOf(cip[k])]]

\* lines 264-322: method 'profile'
ProfileWithBootCleared(params, cl, rep, st, free_params, composite_params, ci) ==
    CiReturned(
        ProfileResult(params, cl, composite_params, ci,
                      MinosComposite(composite_params, MinosLevel(cl), rep),
                      LowerEnds(free_params, ci), UpperEnds(free_params, ci)),
        [st EXCEPT !.merrors = ci, !.boot = NoObj],
        {"minos"} \cup (IF composite_params = <<>> THEN {} ELSE {"migrad"}))
ProfileWith(params, cl, rep, st, free_params, composite_params, ci) ==
    CiReturned(
        ProfileResult(params, cl, composite_params, ci,
                      MinosComposite(composite_params, MinosLevel(cl), rep),
                      LowerEnds(free_params, ci), UpperEnds(free_params, ci)),
        [st EXCEPT !.merrors = ci],
        {"minos"} \cup (IF composite_params = <<>> THEN {} ELSE {"migrad"}))
CiProfile(params, cl, rep, st) ==
    ProfileWith(params, cl, rep, st,
                FilterSeq(params, FreeNames), FilterSeq(params, CompositeNames),
                Minos(FilterSeq(params, FreeNames), MinosLevel(cl), rep, st.merrors))

\* lines 324-337: method 'boot'. An exception of boot() ends the call
CiBoot(params, cl, n, a, st) ==
    LET b == BootOutcome(BootN(n), a, st)
        st1 == [st EXCEPT !.boot = b.boot]
        cl_ == NormalisedCl(cl)
        mle == [k \in Range(params) |-> ResultParams[k]]
        interval == [k \in Range(params) |->
                  <<Quantile(Replicates(k, b.boot.n), (One - cl_) \div 2),
                    Quantile(Replicates(k, b.boot.n), (One + cl_) \div 2)>>]
        error == [k \in Range(params) |->
                  <<interval[k][1] - mle[k], interval[k][2] - mle[k]>>]
    IN  IF b.kind = "raise"
        THEN CiRaised(b.err, <<>>, st1, b.ran)
        ELSE CiReturned(
                [keys |-> DictKeys(params), mle |-> mle, interval |-> interval,
                 error |-> error, cl |-> cl_, method |-> "boot",
                 status |-> [n |-> b.obj.n, n_valid |-> NValid(b.obj)]],
                st1, b.ran)

\* lines 252-354: after the checks of validity and of the names
CiBody(params, req, rep, a, st) ==
    IF IsProfile(req.method) THEN CiProfile(params, req.cl, rep, st)
    ELSE IF req.method = "boot" THEN CiBoot(params, req.cl, req.n, a, st)
    ELSE CiRaised("UnsupportedMethod", <<>>, st, {})

\* MLEResult.ci(params, cl, method, n)
CiOutcomeLateCheck(req, rep, a, st) ==
    LET c == CheckParams(req.params)
    IN  IF c.kind = "raise" THEN CiRaised(c.err, c.names, st, {})
        ELSE IF ~st.valid THEN CiRaised("NotConverged", <<>>, st, {})
        ELSE CiBody(c.names, req, rep, a, st)
CiOutcome(req, rep, a, st) ==
    IF ~st.valid THEN CiRaised("NotConverged", <<>>, st, {})
    ELSE LET c == CheckParams(req.params)
         IN  IF c.kind = "raise" THEN CiRaised(c.err, c.names, st, {})
             ELSE CiBody(c.names, req, rep, a, st)

\* the parameters whose search a call of ci reports on (none when the call
\* ends before the profile branch)
SearchTargets(req, st) ==
    IF ~st.valid \/ CheckParams(req.params).kind = "raise" \/ ~IsProfile(req.method)
    THEN {}
    ELSE Searched(FilterSeq(CheckParams(req.params).names, FreeNames))
            \cup Range(FilterSeq(CheckParams(req.params).names, CompositeNames))

\* a request of ci; n = 0 stands for None
NoReq == [params |-> NoneParams, cl |-> 0, method |-> "", n |-> 0]

\* out: the call made by the last step and how it ended; and five ghosts:
\* rep, what the searches of the call reported; repeat, the step before was boot() with the same n on a valid fit;
\* hadCached, an ensemble of the requested n was cached before the call;
\* bootSame and minuitSame, the call left _boot and the Minuit state as they
\* were
NoOut ==
    [op |-> "none", req |-> NoReq, kind |-> "none", err |-> "", names |-> <<>>,
     ran |-> {}, ci |-> NoCI, obj |-> NoObj, rep |-> <<>>,
     repeat |-> FALSE, hadCached |-> FALSE,
     bootSame |-> TRUE, minuitSame |-> TRUE]

\* ------------------------------------------------ PlotData: the dataset
\* the channels of the dataset and the replicates of an ensemble
Channels == 1..2
Replicas == 1..2
Counts == 0..MaxCount
NoArray == <<>>

\* the dataset of a PlotData and the models fitted to it, per channel:
\* ce_data and ce_model, PlotData.ce_data and MLEPlotData.ce_model;
\* boot_data and boot_models, the entries boot.data[name] and
\* boot.models[name] of the ensemble, per replicate and channel (NoArray: the
\* ensemble is None)
\* statistic, PlotData.statistic; net_counts, net_error and on_model, the
\* net counts, their errors and the model of the on measurement; spec_counts,
\* the counts of the on measurement; back_counts, back_error and off_model,
\* the counts of the off measurement, their errors and its model; deviance,
\* the deviance of each channel at the point estimate; boot_deviance,
\* boot_on_data, boot_off_data, boot_on_models and boot_off_models, the
\* entries of the ensemble for the deviance, the simulated counts and the
\* refitted models of the two measurements; pits, the
\* pair (lower, upper) of PIT arrays that the estimators of
\* elisa.plot.residuals give for this dataset, and the _loo_pit entry of a
\* posterior result; resid and resid_sim, the arrays r[name] and rsim[name]
\* of residuals that Plotter.plot_qq holds for this dataset (NoArray: None)
NoDset ==
    [statistic |-> "chi2",
     ce_data |-> [c \in Channels |-> 0],
     ce_model |-> [c \in Channels |-> 0],
     boot_data |-> NoArray,
     boot_models |-> NoArray,
     net_counts |-> [c \in Channels |-> 0],
     on_model |-> [c \in Channels |-> 0],
     net_error |-> [c \in Channels |-> One],
     spec_counts |-> [c \in Channels |-> 0],
     back_counts |-> [c \in Channels |-> 0],
     off_model |-> [c \in Channels |-> 0],
     back_error |-> [c \in Channels |-> One],
     deviance |-> [c \in Channels |-> 0],
     boot_deviance |-> NoArray,
     boot_on_data |-> NoArray,
     boot_off_data |-> NoArray,
     boot_on_models |-> NoArray,
     boot_off_models |-> NoArray,
     pits |-> <<[c \in Channels |-> 0], [c \in Channels |-> 0]>>,
     resid |-> NoArray,
     resid_sim |-> NoArray]

\* a flag of the quantile residuals: the scalar False, or an array
ScalarFalse == [scalar |-> TRUE, at |-> NoArray]
FlagArray(mask) == [scalar |-> FALSE, at |-> [c \in Channels |-> c \in mask]]
FlagAt(flag, c) == IF flag.scalar THEN FALSE ELSE flag.at[c]

\* the last call: the method, its arguments, how it ended and its value; for
\* the quantile residuals the two flags and, a ghost, the PIT transformed
NoRes ==
    [op |-> "none", args |-> <<>>, kind |-> "none", err |-> "",
     val |-> NoArray,
     lower |-> ScalarFalse, upper |-> ScalarFalse, used |-> NoArray]

\* np.where(data >= model, 1.0, -1.0), for one element
WhereGreater(data, model) == IF data > model THEN 1 ELSE -1
WhereGreaterEqual(data, model) == IF data >= model THEN 1 ELSE -1

\* MLEPlotData._sign_mle
SignMleOf(d) ==
    [c \in Channels |-> WhereGreaterEqual(d.ce_data[c], d.ce_model[c])]

\* MLEPlotData._sign_boot: None without an ensemble
SignBootOf(d) ==
    IF d.boot_models = NoArray THEN NoArray
    ELSE [r \in Replicas |-> [c \in Channels |->
            WhereGreaterEqual(d.boot_data[r][c], d.boot_models[r][c])]]

\* ------------------------------------------ PlotData: PIT and quantiles
\* MLEPlotData._nsim, the simulations of a Monte-Carlo PIT
Nsim == 10000
\* probabilities are kept in units of 1 / Nsim: k stands for k / Unit
Unit == Nsim

\* the statistics, and the families of elisa.infer.likelihood
Statistics == {"chi2", "cstat", "pstat", "pgstat", "wstat"}
STATISTIC_SPEC_NORMAL == {"chi2"}
STATISTIC_BACK_NORMAL == {"pgstat"}
STATISTIC_WITH_BACK == {"pgstat", "wstat"}

\* floats that may be infinite: inf is -1, 0 or 1, x the value when finite
Fin(x) == [inf |-> 0, x |-> x]
NegInf == [inf |-> -1, x |-> 0]
PosInf == [inf |-> 1, x |-> 0]
Finite(r) == r.inf = 0

\* the standard normal quantiles of some probabilities, <<p, z>> with z in
\* units of 1 / One, and the line through two of them
NormKnots ==
    <<<<1, -3719>>, <<2500, -674>>, <<5000, 0>>, <<7500, 674>>, <<9999, 3719>>>>
Between(x1, y1, x2, y2, x) == y1 + ((y2 - y1) * (x - x1)) \div (x2 - x1)

\* stats.norm.ppf(p): -inf at 0, inf at 1, between two knots on their line
Ppf(p) ==
    IF p <= 0 THEN NegInf
    ELSE IF p >= Unit THEN PosInf
    ELSE LET i == CHOOSE j \in 1..(Len(NormKnots) - 1) :
                    NormKnots[j][1] <= p /\ p <= NormKnots[j + 1][1]
         IN  Fin(Between(NormKnots[i][1], NormKnots[i][2],
                         NormKnots[i + 1][1], NormKnots[i + 1][2], p))

\* stats.norm.cdf(z) in double precision: exactly 1.0 from z = 8.3 on, exactly
\* 0.0 down from z = -38.5, strictly between the two elsewhere
NormCdf(z) ==
    IF z >= 8300 THEN Unit
    ELSE IF z <= -38500 THEN 0
    ELSE IF z <= NormKnots[1][2] THEN NormKnots[1][1]
    ELSE IF z >= NormKnots[Len(NormKnots)][2] THEN NormKnots[Len(NormKnots)][1]
    ELSE LET i == CHOOSE j \in 1..(Len(NormKnots) - 1) :
                    NormKnots[j][2] <= z /\ z <= NormKnots[j + 1][2]
         IN  Between(NormKnots[i][2], NormKnots[i][1],
                     NormKnots[i + 1][2], NormKnots[i + 1][1], z)

\* line 338: (on_data - on_model) / self.net_error of channel c
StdResidualReversed(d, c) ==
    ((d.on_model[c] - d.net_counts[c]) * One * One) \div d.net_error[c]
StdResidual(d, c) ==
    ((d.net_counts[c] - d.on_model[c]) * One * One) \div d.net_error[c]

\* the PIT estimators of elisa.plot.residuals: pit_poisson_normal gives one
\* array, pit_poisson_poisson and pit_poisson with minus=True the pair
PitPoissonNormal(d) == d.pits[2]
PitPoissonPoisson(d) == d.pits
PitPoisson(d) == d.pits

\* MLEPlotData.pit
Pit(d) ==
    IF d.statistic \in STATISTIC_SPEC_NORMAL
    THEN LET pit == [c \in Channels |-> NormCdf(StdResidual(d, c))]
         IN  <<pit, pit>>
    ELSE IF d.statistic \in STATISTIC_WITH_BACK
    THEN IF d.statistic \in STATISTIC_BACK_NORMAL
         THEN <<PitPoissonNormal(d), PitPoissonNormal(d)>>
         ELSE PitPoissonPoisson(d)
    ELSE PitPoisson(d)

\* PosteriorPlotData.pit
PosteriorPit(d) == d.pits

\* np.random.default_rng(seed).uniform(low, high): low + (high - low) * u for
\* the numbers u in [0, 1) that the seed gives, one per channel
Uniform(low, high, u) ==
    [c \in Channels |-> low[c] + ((high[c] - low[c]) * u[c]) \div One]

\* lines 509-519 and 819-829: the residuals r of the PITs pit with the ends
\* replaced, and the two flags
ClippedFlagsSwapped(r, pit, nsim) ==
    LET upper_mask == {c \in Channels : pit[c] = 0}
        lower_mask == {c \in Channels : pit[c] = Unit}
    IN  [val |-> [c \in Channels |->
                    IF c \in lower_mask THEN Ppf(Unit - Unit \div nsim)
                    ELSE IF c \in upper_mask THEN Ppf(Unit \div nsim)
                    ELSE r[c]],
         lower |-> IF upper_mask # {} THEN FlagArray(upper_mask) ELSE ScalarFalse,
         upper |-> IF lower_mask # {} THEN FlagArray(lower_mask) ELSE ScalarFalse]
Clipped(r, pit, nsim) ==
    LET upper_mask == {c \in Channels : pit[c] = 0}
        lower_mask == {c \in Channels : pit[c] = Unit}
    IN  [val |-> [c \in Channels |->
                    IF c \in lower_mask THEN Ppf(Unit - Unit \div nsim)
                    ELSE IF c \in upper_mask THEN Ppf(Unit \div nsim)
                    ELSE r[c]],
         lower |-> IF lower_mask # {} THEN FlagArray(lower_mask) ELSE ScalarFalse,
         upper |-> IF upper_mask # {} THEN FlagArray(upper_mask) ELSE ScalarFalse]
Unclipped(r) == [val |-> r, lower |-> ScalarFalse, upper |-> ScalarFalse]

\* the PIT that is transformed: drawn between the two PITs, or the upper one
UsedPit(pair, random, u) ==
    IF random THEN Uniform(pair[1], pair[2], u) ELSE pair[2]

\* MLEPlotData.quantile_residuals_mle(seed, random); u is what the seed gives
QuantileResidualsMle(d, random, u) ==
    LET pit == UsedPit(Pit(d), random, u)
        r == [c \in Channels |-> Ppf(pit[c])]
    IN  IF d.statistic \in {"pgstat", "wstat"}
        THEN Clipped(r, pit, Nsim)
        ELSE Unclipped(r)

\* PosteriorPlotData.quantile_residuals(seed, random); nsim is nchain * ndraw
QuantileResiduals(d, random, u, nsim) ==
    LET pit == UsedPit(PosteriorPit(d), random, u)
        r == [c \in Channels |-> Ppf(pit[c])]
    IN  Clipped(r, pit, nsim)

\* ------------------------------------------------ PlotData: residuals
\* np.sqrt of a number, to the integer below
Sqrt(n) == CHOOSE r \in 0..n : r * r <= n /\ n < (r + 1) * (r + 1)
Abs(x) == IF x < 0 THEN 0 - x ELSE x

\* a column of numbers in ascending order, as np.quantile sees it
Sorted(x) ==
    CHOOSE q \in [DOMAIN x -> {x[i] : i \in DOMAIN x}] :
        /\ \A i, j \in DOMAIN x : i <= j => q[i] <= q[j]
        /\ \A v \in {x[i] : i \in DOMAIN x} :
                Cardinality({i \in DOMAIN x : q[i] = v})
                    = Cardinality({i \in DOMAIN x : x[i] = v})

\* elisa.plot.residuals.pearson_residuals for one element: (data - model)
\* over the given error, over the square root of the model when std is None
\* (std = 0 here); the error is in units of 1 / One
PearsonOf(data, model, std) ==
    IF std = 0 THEN (data - model) \div Sqrt(model)
    ELSE ((data - model) * One) \div std

\* lines 437-445, for one element
DevianceElem(sign, deviance) == sign * Sqrt(deviance)

\* MLEPlotData._deviance_residuals(rtype)
DevianceResiduals(d, rtype) ==
    IF rtype = "boot"
    THEN IF d.boot_models = NoArray THEN NoArray
         ELSE [r \in Replicas |-> [c \in Channels |->
                DevianceElem(SignBootOf(d)[r][c], d.boot_deviance[r][c])]]
    ELSE [c \in Channels |-> DevianceElem(SignMleOf(d)[c], d.deviance[c])]

\* lines 461-495, for one element: the residual of the on measurement, joined
\* under the sign with that of the off measurement when there is one
PearsonElemOwnSign(stat, on, off, sign) ==
    LET r == PearsonOf(on.data, on.model,
                IF stat \in STATISTIC_SPEC_NORMAL THEN on.error ELSE 0)
        r_b == PearsonOf(off.data, off.model,
                IF stat \in STATISTIC_BACK_NORMAL THEN off.error ELSE 0)
    IN  IF stat \in STATISTIC_WITH_BACK
        THEN (IF r >= 0 THEN 1 ELSE -1) * Sqrt(r * r + r_b * r_b)
        ELSE r
PearsonElem(stat, on, off, sign) ==
    LET r == PearsonOf(on.data, on.model,
                IF stat \in STATISTIC_SPEC_NORMAL THEN on.error ELSE 0)
        r_b == PearsonOf(off.data, off.model,
                IF stat \in STATISTIC_BACK_NORMAL THEN off.error ELSE 0)
    IN  IF stat \in STATISTIC_WITH_BACK
        THEN sign * Sqrt(r * r + r_b * r_b)
        ELSE r

\* MLEPlotData._pearson_residuals(rtype)
PearsonResiduals(d, rtype) ==
    IF rtype = "boot"
    THEN IF d.boot_models = NoArray THEN NoArray
         ELSE [r \in Replicas |-> [c \in Channels |->
                PearsonElem(d.statistic,
                    [data |-> d.boot_on_data[r][c],
                     model |-> d.boot_on_models[r][c],
                     error |-> d.net_error[c]],
                    [data |-> d.boot_off_data[r][c],
                     model |-> d.boot_off_models[r][c],
                     error |-> d.back_error[c]],
                    SignBootOf(d)[r][c])]]
    ELSE [c \in Channels |->
            PearsonElem(d.statistic,
                [data |-> IF d.statistic \in STATISTIC_SPEC_NORMAL
                          THEN d.net_counts[c] ELSE d.spec_counts[c],
                 model |-> d.on_model[c],
                 error |-> d.net_error[c]],
                [data |-> d.back_counts[c],
                 model |-> d.off_model[c],
                 error |-> d.back_error[c]],
                SignMleOf(d)[c])]

\* how a call of a residual method ends
Value(val) ==
    [kind |-> "value", err |-> "", val |-> val,
     lower |-> ScalarFalse, upper |-> ScalarFalse]
Raises(err) ==
    [kind |-> "raise", err |-> err, val |-> NoArray,
     lower |-> ScalarFalse, upper |-> ScalarFalse]

\* MLEPlotData.residuals(rtype, seed, random_quantile); u is what the seed
\* gives
Residuals(d, rtype, random_quantile, u) ==
    IF rtype = "deviance" THEN Value(DevianceResiduals(d, "mle"))
    ELSE IF rtype = "pearson" THEN Value(PearsonResiduals(d, "mle"))
    ELSE IF rtype = "quantile"
    THEN LET q == QuantileResidualsMle(d, random_quantile, u)
         IN  [kind |-> "value", err |-> "", val |-> q.val,
              lower |-> q.lower, upper |-> q.upper]
    ELSE Raises("NotImplementedError")

\* MLEPlotData.residuals_sim(rtype): None without an ensemble and for the
\* quantile residuals
ResidualsSim(d, rtype) ==
    IF d.boot_models = NoArray \/ rtype = "quantile" THEN Value(NoArray)
    ELSE IF rtype = "deviance" THEN Value(DevianceResiduals(d, "boot"))
    ELSE IF rtype = "pearson" THEN Value(PearsonResiduals(d, "boot"))
    ELSE Raises("NotImplementedError")

\* MLEPlotData.residuals_ci(rtype, cl, with_sign): the quantiles over the
\* replicates, channel by channel
ResidualsCi(d, rtype, cl, with_sign) ==
    IF d.boot_models = NoArray \/ rtype = "quantile" THEN Value(NoArray)
    ELSE IF ~(0 < cl /\ cl < One) THEN Raises("AssertionError")
    ELSE LET r == ResidualsSim(d, rtype)
             col(c) == [i \in Replicas |-> r.val[i][c]]
             abscol(c) == [i \in Replicas |-> Abs(r.val[i][c])]
         IN  IF r.kind = "raise" THEN r
             ELSE IF with_sign
             THEN Value(<<[c \in Channels |->
                            Quantile(Sorted(col(c)), (One - cl) \div 2)],
                          [c \in Channels |->
                            Quantile(Sorted(col(c)), (One + cl) \div 2)]>>)
             ELSE Value(<<[c \in Channels |->
                            0 - Quantile(Sorted(abscol(c)), cl)],
                          [c \in Channels |->
                            Quantile(Sorted(abscol(c)), cl)]>>)

\* ------------------------------------------------- plotter: PIT ECDF
RECURSIVE Pow(_, _)
Pow(b, e) == IF e = 0 THEN 1 ELSE b * Pow(b, e - 1)

RECURSIVE Binomial(_, _)
Binomial(n, k) ==
    IF k = 0 \/ k = n THEN 1 ELSE Binomial(n - 1, k - 1) + Binomial(n - 1, k)

\* the probability of k successes among n with the success probability i / n,
\* in units of 1 / n^n
BinomPmf(k, n, i) == Binomial(n, k) * Pow(i, k) * Pow(n - i, n - k)

\* stats.binom.cdf(k, n, i / n), in units of 1 / n^n
RECURSIVE BinomCdf(_, _, _)
BinomCdf(k, n, i) ==
    IF k < 0 THEN 0
    ELSE IF k >= n THEN Pow(n, n)
    ELSE BinomCdf(k - 1, n, i) + BinomPmf(k, n, i)

\* the comparison of such a probability c with a level q2 / (2 * One)
Compare(c, n, q2) == 2 * One * c - q2 * Pow(n, n)

\* stats.binom.ppf(q, n, i / n) for 0 < q < 1: the least count whose cdf is at
\* least q
BinomPpf(q2, n, i) ==
    CHOOSE k \in 0..n :
        /\ Compare(BinomCdf(k, n, i), n, q2) >= 0
        /\ \A j \in 0..(k - 1) : Compare(BinomCdf(j, n, i), n, q2) < 0

\* np.clip(x / n, 0.0, 1.0), in units of 1 / n
Clip(x, n) == IF x < 0 THEN 0 ELSE IF x > n THEN n ELSE x

\* lines 833-836: the lower bound at the scaled rank i / n, in units of 1 / n
LowerBound(cl, n, i) ==
    LET lower_q == One - cl
        lower == BinomPpf(lower_q, n, i)
    IN  Clip(IF Compare(BinomCdf(lower, n, i), n, lower_q) > 0
             THEN lower - 1 ELSE lower, n)

\* lines 838-842: the upper bound at the scaled rank i / n, in units of 1 / n
UpperBoundInward(cl, n, i) ==
    LET upper_q == One + cl
        upper == BinomPpf(upper_q, n, i)
    IN  Clip(IF Compare(BinomCdf(upper, n, i), n, upper_q) > 0
             THEN upper - 1 ELSE upper, n)
UpperBound(cl, n, i) ==
    LET upper_q == One + cl
        upper == BinomPpf(upper_q, n, i)
    IN  Clip(IF Compare(BinomCdf(upper, n, i), n, upper_q) < 0
             THEN upper + 1 ELSE upper, n)

\* line 845: how many PIT values are at most the scaled rank i / n
CountNonzero(pit, i) ==
    Cardinality({m \in 1..Len(pit) : pit[m] * Len(pit) <= i * Unit})

\* get_pit_ecdf(pit, cl, detrend); element j of an array belongs to the scaled
\* rank (j - 1) / n, and every array is in units of 1 / n
GetPitEcdf(pit, cl, detrend) ==
    LET n == Len(pit)
        scaled_rank == [j \in 1..(n + 1) |-> j - 1]
        lower == [j \in 1..(n + 1) |-> LowerBound(cl, n, j - 1)]
        upper == [j \in 1..(n + 1) |-> UpperBound(cl, n, j - 1)]
        pit_ecdf == [j \in 1..(n + 1) |-> CountNonzero(pit, j - 1)]
    IN  IF detrend
        THEN [scaled_rank |-> scaled_rank,
              pit_ecdf |-> [j \in 1..(n + 1) |-> pit_ecdf[j] - scaled_rank[j]],
              line |-> [j \in 1..(n + 1) |-> 0],
              lower |-> [j \in 1..(n + 1) |-> lower[j] - scaled_rank[j]],
              upper |-> [j \in 1..(n + 1) |-> upper[j] - scaled_rank[j]]]
        ELSE [scaled_rank |-> scaled_rank, pit_ecdf |-> pit_ecdf,
              line |-> scaled_rank, lower |-> lower, upper |-> upper]

\* --------------------------------------------------------- plotter: Q-Q
\* line 787: alpha = pi / 8, in units of 1 / One
QqAlpha == 393
\* the resolution of the grid on which stats.beta.ppf is inverted
QqGrid == 20

\* line 789: the theoretical quantiles of n residuals
Theor(n) ==
    [i \in 1..n |->
        Ppf(((i * One - QqAlpha) * Unit) \div ((n + 1) * One - 2 * QqAlpha)).x]

\* the cdf of Beta(i, n + 1 - i) at the point k / QqGrid: the probability of at
\* least i successes among n, in units of 1 / QqGrid^n
BetaCdf(k, i, n) ==
    LET pmf(j) == Binomial(n, j) * Pow(k, j) * Pow(QqGrid - k, n - j)
        RECURSIVE upto(_)
        upto(j) == IF j < 0 THEN 0 ELSE upto(j - 1) + pmf(j)
    IN  Pow(QqGrid, n) - upto(i - 1)

\* stats.beta.ppf(p2 / (2 * One), i, n + 1 - i) to the grid point below, in
\* units of 1 / Unit; the quantile of a continuous law at a level strictly
\* between 0 and 1 lies strictly between 0 and 1
BetaPpf(p2, i, n) ==
    LET k == Cardinality({m \in 1..QqGrid :
                2 * One * BetaCdf(m, i, n) <= p2 * Pow(QqGrid, n)})
        x == (k * Unit) \div QqGrid
    IN  IF x < 1 THEN 1 ELSE IF x > Unit - 1 THEN Unit - 1 ELSE x

\* np.sort of a one-dimensional array: a new array, ascending
RECURSIVE NpSort(_)
NpSort(x) ==
    IF Len(x) = 0 THEN <<>>
    ELSE LET i == CHOOSE m \in 1..Len(x) : \A j \in 1..Len(x) : x[m] <= x[j]
         IN  <<x[i]>> \o NpSort(SubSeq(x, 1, i - 1) \o SubSeq(x, i + 1, Len(x)))

\* lines 793-797: np.quantile(np.sort(qsim, axis=1), q=level, axis=0)
QuantileOfSorted(qsim, n, level) ==
    LET rows == CHOOSE x \in {[r \in DOMAIN qsim |-> NpSort(qsim[r])]} : TRUE
    IN  [c \in 1..n |->
            Quantile(NpSort([r \in DOMAIN qsim |-> rows[r][c]]), level)]

\* the arrays get_qq holds while it runs, by the object they live in: the two
\* arguments as the caller gave them, and the arrays built at lines 789-804.
\* np.sort and np.quantile give new arrays
QqObjects(q, cl, qsim) ==
    LET n == Len(q)
    IN  [arg_q |-> q,
         arg_qsim |-> qsim,
         theor |-> Theor(n),
         q |-> NpSort(q),
         line |-> IF qsim # NoArray
                  THEN QuantileOfSorted(qsim, n, One \div 2)
                  ELSE Theor(n),
         lower |-> IF qsim # NoArray
                   THEN QuantileOfSorted(qsim, n, (One - cl) \div 2)
                   ELSE [i \in 1..n |-> Ppf(BetaPpf(One - cl, i, n)).x],
         upper |-> IF qsim # NoArray
                   THEN QuantileOfSorted(qsim, n, (One + cl) \div 2)
                   ELSE [i \in 1..n |-> Ppf(BetaPpf(One + cl, i, n)).x]]

\* line 799, np.array(theor): the object the name line is bound to, a copy
NpArrayNoCopy(src) == src
NpArray(src) == "line"

\* x -= y on the objects x and y
InPlaceSub(h, x, y) ==
    [h EXCEPT ![x] = [j \in DOMAIN h[x] |-> h[x][j] - h[y][j]]]

\* get_qq(q, detrend, cl, qsim): the five arrays returned, and the arrays of
\* the caller after the call
GetQq(q, detrend, cl, qsim) ==
    LET line == IF qsim # NoArray THEN "line" ELSE NpArray("theor")
        h == CHOOSE x \in
                {IF detrend
                 THEN InPlaceSub(InPlaceSub(InPlaceSub(InPlaceSub(
                        QqObjects(q, cl, qsim), "q", "theor"), line, "theor"),
                        "lower", "theor"), "upper", "theor")
                 ELSE QqObjects(q, cl, qsim)} : TRUE
    IN  [theor |-> h["theor"], q |-> h["q"], line |-> h[line],
         lower |-> h["lower"], upper |-> h["upper"],
         arg_q |-> h["arg_q"], arg_qsim |-> h["arg_qsim"]]

\* ------------------------------------------------ util: build_namespace
\* a str is the sequence of its characters; '+' and ''.join are \o
Digits == <<"0", "1", "2", "3", "4", "5", "6", "7", "8", "9">>
\* '%d' % n and str(n), for 0 <= n <= 99
RECURSIVE StrOfInt(_)
StrOfInt(n) == IF n < 10 THEN <<Digits[n + 1]>>
               ELSE StrOfInt(n \div 10) \o <<Digits[(n % 10) + 1]>>

\* c * n: the character c, n times
Times(c, n) == [i \in 1..n |-> c]

\* lines 146-156, the loop over names: the internal list namespace, the
\* counts suffixes_n and the dict counter; err is the exception that ended it
NsStart == [namespace |-> <<>>, suffixes_n |-> <<>>, counter |-> <<>>, err |-> ""]
RECURSIVE NsLoop(_, _)
NsLoop(names, st) ==
    IF names = <<>> \/ st.err # "" THEN st
    ELSE LET name == Head(names)
         IN  IF name \notin Range(st.namespace)
             THEN NsLoop(Tail(names),
                    [namespace |-> Append(st.namespace, name),
                     suffixes_n |-> Append(st.suffixes_n, 1),
                     counter |-> (name :> 1) @@ st.counter,
                     err |-> ""])
             ELSE IF name \notin DOMAIN st.counter
             THEN [st EXCEPT !.err = "KeyError"]
             ELSE NsLoop(Tail(names),
                    [namespace |-> Append(st.namespace,
                        name \o <<"#">> \o StrOfInt(st.counter[name] + 1)),
                     suffixes_n |-> Append(st.suffixes_n, st.counter[name] + 1),
                     counter |-> [st.counter EXCEPT ![name] = @ + 1],
                     err |-> ""])

\* lines 158-166: the suffix of an occurrence counted n
Suffix(n, latex, prime) ==
    IF prime
    THEN IF latex THEN Times("'", n - 1)
         ELSE Times("\"", (n - 1) \div 2) \o Times("'", (n - 1) % 2)
    ELSE IF n > 1 THEN (IF latex THEN <<"_", "{">> \o StrOfInt(n) \o <<"}">>
                        ELSE <<"_">> \o StrOfInt(n))
         ELSE <<>>

\* build_namespace(names, latex, prime)
BuildNamespace(names, latex, prime) ==
    LET st == NsLoop(names, NsStart)
    IN  IF st.err # ""
        THEN [kind |-> "raise", err |-> st.err, namespace |-> <<>>,
              suffix_num |-> <<>>]
        ELSE [kind |-> "value", err |-> "",
              namespace |-> [i \in 1..Len(names) |->
                    names[i] \o Suffix(st.suffixes_n[i], latex, prime)],
              suffix_num |-> [i \in 1..Len(names) |->
                    IF st.suffixes_n[i] > 1 THEN StrOfInt(st.suffixes_n[i])
                    ELSE <<>>]]

\* ------------------------------------------------ progress_bar_factory
\* the small runs: the most evaluations in all and the most devices
MaxEval == 4
MaxCores == 2
\* the most callbacks a device has tapped that the host has not yet run
MaxPending == 3
\* runs long enough for neval > 20: a print rate of 2 with a remainder, a
\* print rate of 1 on two devices, and 11 evaluations on each of two devices
LongRuns == {<<45, 1>>, <<40, 2>>, <<22, 2>>}

\* before the factory is called; then its arguments, how it ended, what it
\* bound (neval_single, print_rate, remainder, finished), the position of
\* the bar (n), how often bar.close() ran, and for every device the
\* iterations it has run and the callbacks it has tapped, oldest first
NoBar ==
    [state |-> "none", err |-> "", neval |-> 0, ncores |-> 0,
     neval_single |-> 0, print_rate |-> 0, remainder |-> 0,
     finished |-> [d \in {} |-> FALSE], n |-> 0, closed |-> 0,
     iter |-> [d \in {} |-> 0], queue |-> [d \in {} |-> <<>>]]

\* print_rate: int(neval_single / 20) truncates the quotient
PrintRate(neval, neval_single) ==
    IF neval > 20 THEN neval_single \div 20 ELSE 1

\* the body of progress_bar_factory up to the bar; neval_single % print_rate
\* divides by print_rate
ProgressBarFactory(neval, ncores) ==
    LET neval_single == neval \div ncores
        print_rate == PrintRate(neval, neval_single)
        called == [NoBar EXCEPT !.neval = neval, !.ncores = ncores]
        devices == 0..(ncores - 1)
    IN  IF neval % ncores # 0
        THEN [called EXCEPT !.state = "raised", !.err = "ValueError"]
        ELSE IF print_rate = 0
        THEN [called EXCEPT !.state = "raised",
                            !.err = "ZeroDivisionError",
                            !.neval_single = neval_single]
        ELSE [called EXCEPT !.state = "made",
                            !.neval_single = neval_single,
                            !.print_rate = print_rate,
                            !.remainder = neval_single % print_rate,
                            !.finished = [d \in devices |-> FALSE],
                            !.iter = [d \in devices |-> 0],
                            !.queue = [d \in devices |-> <<>>]]

\* _update_progress_bar(iter_num) on a device: the callbacks its three
\* lax.cond tap, in program order
UpdateProgressBar(b, iter_num, device) ==
    (IF iter_num = 1
     THEN <<[fn |-> "_update_tqdm", arg |-> 0, device |-> device]>>
     ELSE <<>>)
    \o (IF iter_num % b.print_rate = 0
        THEN <<[fn |-> "_update_tqdm", arg |-> b.print_rate,
                device |-> device]>>
        ELSE <<>>)
    \o (IF iter_num = b.neval_single
        THEN <<[fn |-> "_close_tqdm", arg |-> b.remainder,
                device |-> device]>>
        ELSE <<>>)

\* _update_tqdm: bar.update(arg)
UpdateTqdm(b, arg) == [b EXCEPT !.n = @ + arg]

\* bar.close() once every flag is set, and only then
CloseWhenAllFinished(b) ==
    IF \A d \in DOMAIN b.finished : b.finished[d]
    THEN [b EXCEPT !.closed = @ + 1] ELSE b

\* _close_tqdm: bar.update(arg), the flag of the device, bar.close()
CloseTqdm(b, arg, device) ==
    CloseWhenAllFinished([b EXCEPT !.n = @ + arg, !.finished[device] = TRUE])

\* ----------------------------------------------------- plotter: PlotConfig
\* float('nan'): np.sort puts it last, and every comparison with it is false
NaN == 1000000
FloatLt(a, b) == a # NaN /\ b # NaN /\ a < b
FloatLe(a, b) == a # NaN /\ b # NaN /\ a <= b

\* the most levels in a cl that is given as a sequence
MaxLevels == 2
\* the most constructions and assignments of a behaviour
MaxOps == 2

\* the settings in the order PlotConfig.__init__ assigns them
Settings ==
    <<"alpha", "palette", "xscale", "yscale", "lin_frac", "cl", "residuals",
      "random_quantile", "mark_outlier_residuals", "residuals_ci_with_sign",
      "plot_comps">>

\* the defaults of PlotConfig.__init__; numbers in units of 1 / One; a cl is
\* a float (scalar, num) or a sequence of floats (at)
Defaults ==
    [alpha |-> (8 * One) \div 10, palette |-> "colorblind", xscale |-> "log",
     yscale |-> "linlog", lin_frac |-> (15 * One) \div 100,
     cl |-> [scalar |-> FALSE, num |-> 0,
             at |-> <<DefaultCl, (95 * One) \div 100>>],
     residuals |-> "quantile", random_quantile |-> FALSE,
     mark_outlier_residuals |-> FALSE, residuals_ci_with_sign |-> TRUE,
     plot_comps |-> FALSE]

\* no object yet; then the private attributes of the object the name is
\* bound to and, ghosts, the last operation (op), the setting it was about
\* (attr), its arguments (args), the exception it raised (err) and the
\* operations so far (ops)
NoConfig ==
    [made |-> FALSE, alpha |-> 0, palette |-> "", xscale |-> "",
     yscale |-> "", lin_frac |-> 0, cl |-> <<>>, residuals |-> "",
     random_quantile |-> FALSE, mark_outlier_residuals |-> FALSE,
     residuals_ci_with_sign |-> FALSE, plot_comps |-> FALSE,
     op |-> "none", attr |-> "", args |-> Defaults, err |-> "", ops |-> 0]

\* how a setter ends: the object and the exception
SetOk(c) == [c |-> c, err |-> ""]
SetRaised(c, err) == [c |-> c, err |-> err]

\* np.atleast_1d(cl)
AtLeast1d(cl) == IF cl.scalar THEN <<cl.num>> ELSE cl.at

\* the setters, lines 63-163: the check comes before the assignment
SetAlpha(c, alpha) ==
    IF ~(FloatLt(0, alpha) /\ FloatLe(alpha, One))
    THEN SetRaised(c, "ValueError") ELSE SetOk([c EXCEPT !.alpha = alpha])
SetPalette(c, palette) == SetOk([c EXCEPT !.palette = palette])
SetXscale(c, xscale) ==
    IF xscale \notin {"linear", "log"}
    THEN SetRaised(c, "ValueError") ELSE SetOk([c EXCEPT !.xscale = xscale])
SetYscale(c, yscale) ==
    IF yscale \notin {"linear", "log", "linlog"}
    THEN SetRaised(c, "ValueError") ELSE SetOk([c EXCEPT !.yscale = yscale])
SetLinFracStoreFirst(c, lin_frac) ==
    IF ~(FloatLt(0, lin_frac) /\ FloatLe(lin_frac, One \div 2))
    THEN SetRaised([c EXCEPT !.lin_frac = lin_frac], "ValueError")
    ELSE SetOk([c EXCEPT !.lin_frac = lin_frac])
SetLinFrac(c, lin_frac) ==
    IF ~(FloatLt(0, lin_frac) /\ FloatLe(lin_frac, One \div 2))
    THEN SetRaised(c, "ValueError") ELSE SetOk([c EXCEPT !.lin_frac = lin_frac])
SetCl(c, cl) ==
    LET sorted == NpSort(AtLeast1d(cl))
    IN  IF \E i \in DOMAIN sorted :
               ~(FloatLt(0, sorted[i]) /\ FloatLt(sorted[i], One))
        THEN SetRaised(c, "ValueError") ELSE SetOk([c EXCEPT !.cl = sorted])
SetResiduals(c, residuals) ==
    IF residuals \notin {"deviance", "pearson", "quantile"}
    THEN SetRaised(c, "ValueError")
    ELSE SetOk([c EXCEPT !.residuals = residuals])
SetFlag(c, attr, flag) == SetOk([c EXCEPT ![attr] = flag])

\* self.<attr> = args.<attr>
Setter(c, attr, args) ==
    CASE attr = "alpha" -> SetAlpha(c, args.alpha)
      [] attr = "palette" -> SetPalette(c, args.palette)
      [] attr = "xscale" -> SetXscale(c, args.xscale)
      [] attr = "yscale" -> SetYscale(c, args.yscale)
      [] attr = "lin_frac" -> SetLinFrac(c, args.lin_frac)
      [] attr = "cl" -> SetCl(c, args.cl)
      [] attr = "residuals" -> SetResiduals(c, args.residuals)
      [] OTHER -> SetFlag(c, attr, args[attr])

\* PlotConfig.__init__, lines 47-57, from its i-th assignment on: the first
\* setter that raises ends it
RECURSIVE InitFrom(_, _, _)
InitFrom(c, args, i) ==
    IF i > Len(Settings) THEN SetOk(c)
    ELSE CHOOSE end \in
            {IF r.err # "" THEN r ELSE InitFrom(r.c, args, i + 1) :
                r \in {Setter(c, Settings[i], args)}} : TRUE

\* PlotConfig(**args): the name is bound to the new object only when
\* __init__ returns
NewPlotConfig(c, attr, args) ==
    CHOOSE new \in
        {[(IF r.err = "" THEN r.c ELSE c)
            EXCEPT !.op = "init", !.attr = attr, !.args = args,
                   !.err = r.err, !.ops = c.ops + 1] :
            r \in {InitFrom([NoConfig EXCEPT !.made = TRUE], args, 1)}} :
        TRUE

\* config.<attr> = args.<attr>
Assigned(c, attr, args) ==
    CHOOSE new \in
        {[r.c EXCEPT !.op = "assign", !.attr = attr, !.args = args,
                     !.err = r.err, !.ops = c.ops + 1] :
            r \in {Setter(c, attr, args)}} : TRUE

\* --------------------------------------------------------------- actions
CacheInit ==
    /\ boot = NoObj
    /\ lastRepl = "none"
    /\ built = [i \in Inst |-> FALSE]
    /\ old_id = [i \in Inst |-> NewInstState(NoObj).old_id]
    /\ cache = [i \in Inst |-> NewInstState(NoObj).cache]
    /\ pure = [i \in Inst |-> NewInstState(NoObj).pure]
    /\ ret = NoRet
    /\ valid = TRUE
    /\ merrors = [k \in FreeNames |-> NoMError]
    /\ out = NoOut
    /\ dset = NoDset
    /\ res = NoRes
    /\ bar = NoBar
    /\ config = NoConfig

\* PlotData.__init__: wrap every registered method of the new instance
Construct(i) ==
    /\ ~built[i]
    /\ built' = [built EXCEPT ![i] = TRUE]
    /\ old_id' = [old_id EXCEPT ![i] = NewInstState(boot).old_id]
    /\ ret' = NoRet
    /\ UNCHANGED <<boot, lastRepl, cache, pure, mleVars, plotVars, utilVars>>

\* a call of a cached diagnostic of instance i
CallOnClassCache(i, m, a) ==
    /\ built[i]
    /\ \E r \in {CallOf(InstState(i), boot, m, a)} :
           /\ old_id' = [j \in DOMAIN old_id |-> r.s.old_id]
           /\ cache' = [j \in DOMAIN cache |-> r.s.cache]
           /\ pure' = [j \in DOMAIN pure |-> r.s.pure]
           /\ ret' = [inst |-> i, key |-> <<m, a>>, kind |-> r.kind, n |-> r.n,
                      srcs |-> r.srcs,
                      recomputed |-> <<m, a>> \in r.s.done,
                      wasCurrent |-> <<m, a>> \in Current(i),
                      redundant |-> r.s.done \cap Current(i) # {}]
    /\ UNCHANGED <<boot, lastRepl, built, mleVars, plotVars, utilVars>>
Call(i, m, a) ==
    /\ built[i]
    /\ \E r \in {CallOf(InstState(i), boot, m, a)} :
           /\ old_id' = [old_id EXCEPT ![i] = r.s.old_id]
           /\ cache' = [cache EXCEPT ![i] = r.s.cache]
           /\ pure' = [pure EXCEPT ![i] = r.s.pure]
           /\ ret' = [inst |-> i, key |-> <<m, a>>, kind |-> r.kind, n |-> r.n,
                      srcs |-> r.srcs,
                      recomputed |-> <<m, a>> \in r.s.done,
                      wasCurrent |-> <<m, a>> \in Current(i),
                      redundant |-> r.s.done \cap Current(i) # {}]
    /\ UNCHANGED <<boot, lastRepl, built, mleVars, plotVars, utilVars>>

\* the owner's ensemble is recomputed and the field rebound to the new object.
\* The new object is built while the field still references the old one, so id()
\* gives it another address than the old one's; it may be the address of any
\* object released earlier. (Other holders of old objects only take addresses
\* away from this choice.)
ReplaceEnsemble(n, a) ==
    /\ boot.gen < MaxGen
    /\ a \in Addr \ {boot.addr}
    /\ boot' = [addr |-> a, gen |-> boot.gen + 1, n |-> n]
    /\ lastRepl' = IF boot # NoObj /\ n = boot.n THEN "same" ELSE "diff"
    /\ ret' = NoRet
    /\ UNCHANGED <<built, old_id, cache, pure, mleVars, plotVars, utilVars>>

CacheNext ==
    \/ \E i \in Inst : Construct(i)
    \/ \E i \in Inst, m \in CheckedMethods \cup PureMethods : \E a \in ArgsOf(m) : Call(i, m, a)
    \/ \E n \in 1..MaxN, a \in Addr : ReplaceEnsemble(n, a)

CacheSpec == CacheInit /\ [][CacheNext]_vars

\* ------------------------------------------------- MLEResult: actions
\* the longest sequence of names a request holds, the largest sigma count
MaxReq == 2
MaxSigma == 4

ReqNames == ParamsNames \cup UnknownNames
\* the sequences of up to n different elements of S
SeqsUpTo(S, n) ==
    UNION {{q \in [1..m -> S] : \A i, j \in 1..m : q[i] = q[j] => i = j} :
            m \in 0..n}
ParamsInputs ==
    {NoneParams, OtherParams}
        \cup {StrParams(s) : s \in ReqNames}
        \cup {SeqParams(q) : q \in SeqsUpTo(ReqNames, MaxReq)}

\* cl: one sigma and MaxSigma sigmas, and the probability of one sigma
ClInputs == {One, MaxSigma * One, NormalisedCl(One)}
Methods == {"profile", "boot", "mcmc"}

\* the requests: every params argument with every method at the default cl,
\* and every cl and n for one parameter
Requests ==
    [params : ParamsInputs, cl : {One}, method : Methods, n : {0}]
        \cup [params : {StrParams("a")}, cl : ClInputs,
              method : {"profile", "boot"}, n : 0..MaxN]

\* the MLEResult instance as its methods see it
St == [valid |-> valid, merrors |-> merrors, boot |-> boot]

MLEInit ==
    /\ valid \in BOOLEAN
    /\ merrors = [k \in FreeNames |-> NoMError]
    /\ out = NoOut
    /\ boot = NoObj
    /\ lastRepl = "none"
    /\ built = [i \in Inst |-> FALSE]
    /\ old_id = [i \in Inst |-> NewInstState(NoObj).old_id]
    /\ cache = [i \in Inst |-> NewInstState(NoObj).cache]
    /\ pure = [i \in Inst |-> NewInstState(NoObj).pure]
    /\ ret = NoRet
    /\ dset = NoDset
    /\ res = NoRes
    /\ bar = NoBar
    /\ config = NoConfig

\* MLEResult.boot(n)
Boot(n) ==
    \E a \in Allocs(n, St) :
    \E r \in {BootOutcome(n, a, St)} :
        /\ boot' = r.boot
        /\ out' = [op |-> "boot", req |-> [NoReq EXCEPT !.n = n],
                   kind |-> r.kind, err |-> r.err, names |-> <<>>,
                   ran |-> r.ran, ci |-> NoCI, obj |-> r.obj, rep |-> <<>>,
                   repeat |-> valid /\ out.op = "boot" /\ out.req.n = n,
                   hadCached |-> boot # NoObj /\ boot.n = n,
                   bootSame |-> r.boot = boot, minuitSame |-> TRUE]
        /\ UNCHANGED <<valid, merrors, cacheVars, plotVars, utilVars>>

\* MLEResult.ci(params, cl, method, n), its searches reporting within R
CiWith(req, R) ==
    \E a \in Allocs(BootN(req.n), St) :
    \E rep \in [SearchTargets(req, St) -> R] :
    \E r \in {CiOutcome(req, rep, a, St)} :
        /\ boot' = r.boot
        /\ merrors' = r.merrors
        /\ out' = [op |-> "ci", req |-> req,
                   kind |-> r.kind, err |-> r.err, names |-> r.names,
                   ran |-> r.ran, ci |-> r.ci, obj |-> NoObj, rep |-> rep,
                   repeat |-> FALSE,
                   hadCached |-> boot # NoObj /\ boot.n = BootN(req.n),
                   bootSame |-> r.boot = boot,
                   minuitSame |-> r.merrors = merrors]
        /\ UNCHANGED <<valid, cacheVars, plotVars, utilVars>>

Ci(req) == CiWith(req, Reports)

MLENext ==
    \/ \E n \in 1..MaxN : Boot(n)
    \/ \E req \in Requests : Ci(req)

MLESpec == MLEInit /\ [][MLENext]_vars

\* ------------------------------------- MLEResult.ci: the profile method
\* the requests of a profile: a free parameter alone, two free ones, a
\* composite with a free one
ProfileParams ==
    {StrParams("a"), StrParams("b"),
     SeqParams(<<"b", "a">>), SeqParams(<<"f", "a">>)}
ProfileRequests ==
    [params : ProfileParams, cl : {One}, method : {"profile"}, n : {0}]

\* a fit that converged
ProfileInit == MLEInit /\ valid

\* MLEResult.ci(params, cl, 'profile'), every search reporting anything
Profile(req) == CiWith(req, AllReports)

ProfileNext == \E req \in ProfileRequests : Profile(req)

ProfileSpec == ProfileInit /\ [][ProfileNext]_vars

\* ------------------------------------------------- PlotData: the signs
\* the result object and the instance made for its dataset, the other parts
\* of the program as they are after construction
PlotInit ==
    /\ boot = IF dset.boot_models = NoArray THEN NoObj
              ELSE [addr |-> 1, gen |-> 1, n |-> Cardinality(Replicas)]
    /\ lastRepl = "none"
    /\ built = [i \in Inst |-> TRUE]
    /\ old_id = [i \in Inst |-> NewInstState(boot).old_id]
    /\ cache = [i \in Inst |-> NewInstState(boot).cache]
    /\ pure = [i \in Inst |-> NewInstState(boot).pure]
    /\ ret = NoRet
    /\ valid = TRUE
    /\ merrors = [k \in FreeNames |-> NoMError]
    /\ out = NoOut
    /\ res = NoRes
    /\ bar = NoBar
    /\ config = NoConfig

\* a dataset with its point estimate, or with an ensemble
SignInit ==
    /\ dset \in
        {[NoDset EXCEPT !.ce_data = d, !.ce_model = m] :
            d \in [Channels -> Counts], m \in [Channels -> Counts]}
        \cup
        {[NoDset EXCEPT !.boot_data = d, !.boot_models = m] :
            d \in [Replicas -> [Channels -> Counts]],
            m \in [Replicas -> [Channels -> Counts]]}
    /\ PlotInit

Returns(op, args, val) ==
    [NoRes EXCEPT !.op = op, !.args = args, !.kind = "value", !.val = val]

SignMle ==
    /\ res' = Returns("_sign_mle", <<>>, SignMleOf(dset))
    /\ UNCHANGED <<boot, cacheVars, mleVars, dset, utilVars>>

SignBoot ==
    /\ res' = Returns("_sign_boot", <<>>, SignBootOf(dset))
    /\ UNCHANGED <<boot, cacheVars, mleVars, dset, utilVars>>

SignNext == SignMle \/ SignBoot

SignSpec == SignInit /\ [][SignNext]_vars

\* ----------------------------------- PlotData: PIT, quantile residuals
\* the PITs an estimator gives: none, the least above none, a half, the
\* greatest below all, all
PitValues == {0, 2, Unit \div 2, Unit - 2, Unit}
PitPairs ==
    {pp \in [1..2 -> [Channels -> PitValues]] :
        \A c \in Channels : pp[1][c] <= pp[2][c]}
\* the errors of the net counts: 1, 0.1 and 0.02
ErrInputs == {One, One \div 10, One \div 50}

\* a dataset of Gaussian data with its model, or one of another statistic
\* with what the PIT estimators give for it (one array with a Gaussian
\* background)
QuantInit ==
    /\ dset \in
        {[NoDset EXCEPT !.net_counts = k, !.on_model = m, !.net_error = e] :
            k \in [Channels -> Counts], m \in [Channels -> Counts],
            e \in [Channels -> ErrInputs]}
        \cup
        {[NoDset EXCEPT !.statistic = sp[1], !.pits = sp[2]] :
            sp \in {q \in (Statistics \ STATISTIC_SPEC_NORMAL) \X PitPairs :
                        q[1] \in STATISTIC_BACK_NORMAL => q[2][1] = q[2][2]}}
    /\ PlotInit

\* what a seed gives for the channels: 0 or a half
Draws == [Channels -> {0, One \div 2}]
\* chains times draws of a posterior
NsimInputs == {4, Nsim}

CallPit ==
    /\ res' = Returns("pit", <<>>, Pit(dset))
    /\ UNCHANGED <<boot, cacheVars, mleVars, dset, utilVars>>

Call_quantile_residuals_mle(random, u) ==
    \E q \in {QuantileResidualsMle(dset, random, u)} :
        /\ res' = [op |-> "quantile_residuals_mle",
                   args |-> [random |-> random, nsim |-> Nsim],
                   kind |-> "value", err |-> "", val |-> q.val,
                   lower |-> q.lower, upper |-> q.upper,
                   used |-> UsedPit(Pit(dset), random, u)]
        /\ UNCHANGED <<boot, cacheVars, mleVars, dset, utilVars>>

Call_quantile_residuals(random, u, nsim) ==
    \E q \in {QuantileResiduals(dset, random, u, nsim)} :
        /\ res' = [op |-> "quantile_residuals",
                   args |-> [random |-> random, nsim |-> nsim],
                   kind |-> "value", err |-> "", val |-> q.val,
                   lower |-> q.lower, upper |-> q.upper,
                   used |-> UsedPit(PosteriorPit(dset), random, u)]
        /\ UNCHANGED <<boot, cacheVars, mleVars, dset, utilVars>>

QuantNext ==
    \/ CallPit
    \/ \E random \in BOOLEAN, u \in Draws :
            Call_quantile_residuals_mle(random, u)
    \/ \E random \in BOOLEAN, u \in Draws, nsim \in NsimInputs :
            Call_quantile_residuals(random, u, nsim)

QuantSpec == QuantInit /\ [][QuantNext]_vars

\* ------------------------------------------- PlotData: residual methods
\* the residual kinds, and a name that is none of them
Kinds == {"deviance", "pearson", "quantile"}
KindInputs == Kinds \cup {"raw"}

\* a dataset of two channels with its models, and an ensemble for it
SampleDset ==
    [NoDset EXCEPT
        !.ce_model = <<1, 1>>,
        !.net_counts = <<3, 0>>, !.spec_counts = <<4, 1>>,
        !.on_model = <<1, 1>>, !.back_counts = <<0, 8>>,
        !.off_model = <<4, 4>>, !.deviance = <<4, 1>>,
        !.pits = <<[c \in Channels |-> 2], [c \in Channels |-> Unit \div 2]>>]
WithEnsemble(d) ==
    [d EXCEPT
        !.boot_data = <<<<1, 0>>, <<0, 1>>>>,
        !.boot_models = <<<<1, 1>>, <<0, 0>>>>,
        !.boot_deviance = <<<<1, 4>>, <<9, 0>>>>,
        !.boot_on_data = <<<<4, 1>>, <<1, 3>>>>,
        !.boot_on_models = <<<<1, 1>>, <<1, 1>>>>,
        !.boot_off_data = <<<<4, 12>>, <<0, 4>>>>,
        !.boot_off_models = <<<<4, 4>>, <<4, 4>>>>]

\* the dataset with any statistic and any observed values, with the ensemble
\* or with none
ResidInit ==
    /\ dset \in
        UNION {{[e EXCEPT !.statistic = st, !.ce_data = x] :
                    st \in Statistics, x \in [Channels -> Counts]} :
               e \in {SampleDset, WithEnsemble(SampleDset)}}
    /\ PlotInit

Ended(op, args, r) ==
    [op |-> op, args |-> args, kind |-> r.kind, err |-> r.err, val |-> r.val,
     lower |-> r.lower, upper |-> r.upper, used |-> NoArray]

Call_residuals(rtype, random_quantile, u) ==
    /\ res' = Ended("residuals", [rtype |-> rtype, random |-> random_quantile],
                    Residuals(dset, rtype, random_quantile, u))
    /\ UNCHANGED <<boot, cacheVars, mleVars, dset, utilVars>>

Call_residuals_sim(rtype) ==
    /\ res' = Ended("residuals_sim", [rtype |-> rtype],
                    ResidualsSim(dset, rtype))
    /\ UNCHANGED <<boot, cacheVars, mleVars, dset, utilVars>>

Call_residuals_ci(rtype, cl, with_sign) ==
    /\ res' = Ended("residuals_ci",
                    [rtype |-> rtype, cl |-> cl, with_sign |-> with_sign],
                    ResidualsCi(dset, rtype, cl, with_sign))
    /\ UNCHANGED <<boot, cacheVars, mleVars, dset, utilVars>>

ResidNext ==
    \/ \E rtype \in KindInputs, random \in BOOLEAN, u \in Draws :
            Call_residuals(rtype, random, u)
    \/ \E rtype \in KindInputs : Call_residuals_sim(rtype)
    \/ \E rtype \in KindInputs, cl \in CiArgs, with_sign \in BOOLEAN :
            Call_residuals_ci(rtype, IF cl = NoArgs THEN DefaultCl ELSE cl[1],
                              with_sign)

ResidSpec == ResidInit /\ [][ResidNext]_vars

\* ------------------------------------------------- plotter: PIT ECDF
\* a dataset of up to MaxPits channels with the PIT of each, one array for
\* both PITs
EcdfInit ==
    /\ dset \in
        {[NoDset EXCEPT !.pits = <<p, p>>] :
            p \in UNION {[1..n -> PitValues] : n \in 1..MaxPits}}
    /\ PlotInit

\* the levels of the band: a half, one sigma, and 0.95 as plot_pit asks
EcdfLevels == {One \div 2, DefaultCl, (95 * One) \div 100}

\* get_pit_ecdf(pit, cl, detrend) for the upper PIT of the dataset, as in
\* Plotter.plot_pit
Call_get_pit_ecdf(cl, detrend) ==
    /\ res' = Returns("get_pit_ecdf",
                      [pit |-> dset.pits[2], cl |-> cl, detrend |-> detrend],
                      GetPitEcdf(dset.pits[2], cl, detrend))
    /\ UNCHANGED <<boot, cacheVars, mleVars, dset, utilVars>>

EcdfNext ==
    \E cl \in EcdfLevels, detrend \in BOOLEAN : Call_get_pit_ecdf(cl, detrend)

EcdfSpec == EcdfInit /\ [][EcdfNext]_vars

\* --------------------------------------------------------- plotter: Q-Q
\* the residuals of up to MaxPits channels, with no simulated residuals or
\* with those of the replicates, each replicate rising or falling along the
\* channels
QqValues == {0 - One, 0, 2 * One}
QqSimRows(n) ==
    {[c \in 1..n |-> (c - 1) * One], [c \in 1..n |-> (1 - c) * One]}
QqInit ==
    /\ dset \in
        UNION {{[NoDset EXCEPT !.resid = q, !.resid_sim = s] :
                    q \in [1..n -> QqValues],
                    s \in {NoArray} \cup [Replicas -> QqSimRows(n)]} :
               n \in 1..MaxPits}
    /\ PlotInit

\* get_qq(r[name], detrend, cl, rsim[name]), as in Plotter.plot_qq
Call_get_qq(detrend, cl) ==
    \E r \in {GetQq(dset.resid, detrend, cl, dset.resid_sim)} :
        /\ res' = Returns("get_qq",
                          [q |-> dset.resid, detrend |-> detrend, cl |-> cl,
                           qsim |-> dset.resid_sim],
                          [theor |-> r.theor, q |-> r.q, line |-> r.line,
                           lower |-> r.lower, upper |-> r.upper])
        /\ dset' = [dset EXCEPT !.resid = r.arg_q, !.resid_sim = r.arg_qsim]
        /\ UNCHANGED <<boot, cacheVars, mleVars, utilVars>>

QqNext ==
    \E detrend \in BOOLEAN, cl \in {DefaultCl, (95 * One) \div 100} :
        Call_get_qq(detrend, cl)

QqSpec == QqInit /\ [][QqNext]_vars

\* ------------------------------------------------ util: build_namespace
\* the longest sequence of names
MaxNames == 3
\* the names: two plain ones, and two that read like a name with a suffix
NsNames == {<<"a">>, <<"b">>, <<"a", "_", "2">>, <<"a", "#", "2">>}
NsInputs == UNION {[1..n -> NsNames] : n \in 0..MaxNames}

Call_build_namespace(names, latex, prime) ==
    \E r \in {BuildNamespace(names, latex, prime)} :
        /\ res' = [NoRes EXCEPT
                    !.op = "build_namespace",
                    !.args = [names |-> names, latex |-> latex, prime |-> prime],
                    !.kind = r.kind, !.err = r.err,
                    !.val = [namespace |-> r.namespace,
                             suffix_num |-> r.suffix_num]]
        /\ UNCHANGED <<boot, cacheVars, mleVars, dset, utilVars>>

NsInit == CacheInit

NsNext ==
    \E names \in NsInputs, latex \in BOOLEAN, prime \in BOOLEAN :
        Call_build_namespace(names, latex, prime)

NsSpec == NsInit /\ [][NsNext]_vars

\* ------------------------------------- PlotData: two instances, one result
\* two PlotData instances made for the same fit result
Inst2 == {"d1", "d2"}

ShareInit ==
    /\ boot = NoObj
    /\ lastRepl = "none"
    /\ built = [i \in Inst2 |-> FALSE]
    /\ old_id = [i \in Inst2 |-> NewInstState(NoObj).old_id]
    /\ cache = [i \in Inst2 |-> NewInstState(NoObj).cache]
    /\ pure = [i \in Inst2 |-> NewInstState(NoObj).pure]
    /\ ret = NoRet
    /\ valid = TRUE
    /\ merrors = [k \in FreeNames |-> NoMError]
    /\ out = NoOut
    /\ dset = NoDset
    /\ res = NoRes
    /\ bar = NoBar
    /\ config = NoConfig

\* the diagnostics read in this part: the two signs; every ensemble has one
\* replicate
ShareNext ==
    \/ \E i \in Inst2 : Construct(i)
    \/ \E i \in Inst2, m \in {"_sign_boot", "_sign_mle"} : Call(i, m, NoArgs)
    \/ \E a \in Addr : ReplaceEnsemble(1, a)

ShareSpec == ShareInit /\ [][ShareNext]_vars

\* ------------------------- MLEResult and MLEPlotData: the cached ensemble
\* a converged fit whose _boot is None or holds an ensemble, and no PlotData
\* instance made yet
FrameInit ==
    /\ boot \in {NoObj} \cup {[addr |-> 1, gen |-> 1, n |-> n] : n \in 1..MaxN}
    /\ lastRepl = "none"
    /\ built = [i \in Inst |-> FALSE]
    /\ old_id = [i \in Inst |-> NewInstState(NoObj).old_id]
    /\ cache = [i \in Inst |-> NewInstState(NoObj).cache]
    /\ pure = [i \in Inst |-> NewInstState(NoObj).pure]
    /\ ret = NoRet
    /\ valid = TRUE
    /\ merrors = [k \in FreeNames |-> NoMError]
    /\ out = NoOut
    /\ dset = NoDset
    /\ res = NoRes
    /\ bar = NoBar
    /\ config = NoConfig

\* the requests: a profile of a free parameter, of the composite one with a
\* free one, and a bootstrap interval with every n
FrameRequests ==
    [params : {StrParams("a"), SeqParams(<<"f", "b">>)}, cl : {One},
     method : {"profile"}, n : {0}]
        \cup [params : {StrParams("a")}, cl : {One}, method : {"boot"},
              n : 0..MaxN]

FrameNext ==
    \/ \E i \in Inst : Construct(i)
    \/ \E i \in Inst, m \in {"_sign_boot", "deviance_residuals_boot"} :
            Call(i, m, NoArgs)
    \/ \E n \in 1..MaxN : Boot(n)
    \/ \E req \in FrameRequests : Ci(req)

FrameSpec == FrameInit /\ [][FrameNext]_vars

\* ------------------------------------------------ progress bar: actions
ProgressInputs ==
    {<<neval, ncores>> : neval \in 1..MaxEval, ncores \in 1..MaxCores}
        \cup LongRuns

ProgressInit == CacheInit

\* progress_bar_factory(neval, ncores)
Call_progress_bar_factory(neval, ncores) ==
    /\ bar.state = "none"
    /\ bar' = ProgressBarFactory(neval, ncores)
    /\ UNCHANGED <<boot, cacheVars, mleVars, plotVars, config>>

\* _wrapper_progress_bar(i, vals) on one device, i = bar.iter[device]: the
\* device taps the callbacks of iteration i + 1
WrapperProgressBar(device) ==
    /\ bar.state = "made"
    /\ device \in DOMAIN bar.iter
    /\ bar.iter[device] < bar.neval_single
    /\ \E taps \in {UpdateProgressBar(bar, bar.iter[device] + 1, device)} :
        /\ Len(bar.queue[device]) + Len(taps) <= MaxPending
        /\ bar' = [bar EXCEPT !.iter[device] = @ + 1,
                              !.queue[device] = @ \o taps]
    /\ UNCHANGED <<boot, cacheVars, mleVars, plotVars, config>>

\* the host runs the oldest callback a device has tapped
HostCallback(device) ==
    /\ bar.state = "made"
    /\ device \in DOMAIN bar.queue
    /\ bar.queue[device] # <<>>
    /\ \E cb \in {Head(bar.queue[device])} :
       \E rest \in {[bar EXCEPT !.queue[device] = Tail(@)]} :
            bar' = IF cb.fn = "_update_tqdm"
                   THEN UpdateTqdm(rest, cb.arg)
                   ELSE CloseTqdm(rest, cb.arg, cb.device)
    /\ UNCHANGED <<boot, cacheVars, mleVars, plotVars, config>>

ProgressNext ==
    \/ \E io \in ProgressInputs : Call_progress_bar_factory(io[1], io[2])
    \/ \E device \in 0..(MaxCores - 1) : WrapperProgressBar(device)
    \/ \E device \in 0..(MaxCores - 1) : HostCallback(device)

ProgressSpec == ProgressInit /\ [][ProgressNext]_vars

\* ------------------------------------------------- PlotConfig: actions
\* the values a setting is given: its default, another that is allowed and
\* those at and beyond the ends of its constraint
ClLevels == {0, DefaultCl, (95 * One) \div 100}
ConfigValues(attr) ==
    CASE attr = "alpha" -> {0, One, One + 1, NaN}
      [] attr = "palette" -> {"deep"}
      [] attr = "xscale" -> {"linear", "linlog"}
      [] attr = "yscale" -> {"log", "quantile"}
      [] attr = "lin_frac" -> {0, One \div 2, One \div 2 + 1, NaN}
      [] attr = "cl" ->
            {[scalar |-> TRUE, num |-> l, at |-> <<>>] :
                l \in ClLevels \cup {One, NaN}}
            \cup UNION {{[scalar |-> FALSE, num |-> 0, at |-> s] :
                            s \in [1..n -> ClLevels]} : n \in 0..MaxLevels}
      [] attr = "residuals" -> {"deviance", "linlog"}
      [] OTHER -> BOOLEAN

\* a call or an assignment that gives one setting
ConfigRequests ==
    UNION {{[attr |-> Settings[i],
             args |-> [Defaults EXCEPT ![Settings[i]] = v]] :
                v \in ConfigValues(Settings[i])} : i \in DOMAIN Settings}

ConfigInit == CacheInit

\* config = PlotConfig(<attr>=...)
Construct_PlotConfig(req) ==
    /\ config.ops < MaxOps
    /\ config' = NewPlotConfig(config, req.attr, req.args)
    /\ UNCHANGED <<boot, cacheVars, mleVars, plotVars, bar>>

\* config.<attr> = ...
Assign_PlotConfig(req) ==
    /\ config.made
    /\ config.ops < MaxOps
    /\ config' = Assigned(config, req.attr, req.args)
    /\ UNCHANGED <<boot, cacheVars, mleVars, plotVars, bar>>

ConfigNext ==
    \E req \in ConfigRequests :
        \/ Construct_PlotConfig(req)
        \/ Assign_PlotConfig(req)

ConfigSpec == ConfigInit /\ [][ConfigNext]_vars

\* ---------------------------------------------------- cache: properties
ZeroArgChecked == {k \in CKeys : k[2] = NoArgs /\ k[1] # "ce_model_ci"}

\* C1 (as claimed): after the tracked field was replaced by a new object with
\* identical values, the next call of a zero-argument dependency-checked
\* diagnostic runs its computation, no later call runs it again while the
\* field is unchanged, and no pure-cached diagnostic is computed a second time.
C1_RecomputesExactlyOnce ==
    (ret.kind = "value" /\ lastRepl = "same")
        => /\ ~ret.redundant
           /\ (ret.key \in ZeroArgChecked /\ ~ret.wasCurrent) => ret.recomputed

\* C2 (as claimed): a value returned by a dependency-checked diagnostic was
\* computed from no other ensemble than the one the tracked field references
\* at the time of the call.
C2_NeverFromAnotherEnsemble ==
    (ret.kind = "value" /\ ret.key \in CKeys) => ret.srcs \subseteq {boot.gen}

\* C3: no call runs the computation of a key that already holds a value
\* computed since the tracked field last changed (pure keys: computed at all),
\* neither for its own key nor in a nested call; and a call of a pure key that
\* was computed before returns the value cached then.
C3_ComputedAtMostOnce ==
    ret.kind # "none"
        => /\ ~ret.redundant
           /\ (ret.key \in PKeys /\ ret.wasCurrent)
                => (~ret.recomputed /\ ret.n = pure[ret.inst][ret.key].n)

\* a repeated read of a dependency-checked diagnostic between two ensemble
\* updates was served from the cache
C3_Witness ==
    /\ ret.kind = "value" /\ ret.key \in CKeys
    /\ boot.gen > 1
    /\ ret.wasCurrent /\ ~ret.recomputed

C5_BuildsAndCachesNewObject ==
    (out.op = "boot" /\ valid /\ ~out.hadCached)
        => /\ out.kind = "return"
           /\ out.ran = {"simulate", "refit"}
           /\ out.obj # NoObj /\ out.obj.n = out.req.n
           /\ ~out.bootSame
           /\ boot = out.obj

\* C6: boot on a fit that is not valid raises the not-converged error, no
\* simulation and no refit was started, and _boot is what it was.
C6_InvalidBootRaisesFirst ==
    (out.op = "boot" /\ ~valid)
        => /\ out.kind = "raise" /\ out.err = "NotConverged"
           /\ out.ran = {}
           /\ out.bootSame

\* boot was called on a fit that is not valid
C6_Witness == out.op = "boot" /\ ~valid /\ out.kind = "raise"

\* C7: ci on a fit that is not valid raises the not-converged error whatever
\* params, cl, method and n are; no name was reported as unknown, no search
\* and no bootstrap ran, and the Minuit state and _boot are what they were.
C7_InvalidCiRaisesFirst ==
    (out.op = "ci" /\ ~valid)
        => /\ out.kind = "raise" /\ out.err = "NotConverged"
           /\ out.names = <<>>
           /\ out.ran = {}
           /\ out.minuitSame /\ out.bootSame

\* ci was called on a fit that is not valid with an unknown name and an
\* unsupported method, and the not-converged error was the one raised
C7_Witness ==
    /\ out.op = "ci" /\ ~valid
    /\ out.req.params.kind = "seq"
    /\ \E i \in 1..Len(out.req.params.names) :
            out.req.params.names[i] \in UnknownNames
    /\ out.req.method = "mcmc"
    /\ out.err = "NotConverged"

IsNoParamName(z) == z \notin ParamsNames
SeqRequestWithUnknown ==
    /\ out.op = "ci"
    /\ out.req.params.kind = "seq"
    /\ SelectSeq(out.req.params.names, IsNoParamName) # <<>>
AllUnknownReported ==
    /\ out.kind = "raise" /\ out.err = "UnknownParameters"
    /\ out.names = SelectSeq(out.req.params.names, IsNoParamName)
    /\ out.ran = {}
    /\ out.minuitSame /\ out.bootSame

\* C8 (as claimed): ci with a sequence of names of which at least one is no
\* parameter name raises one error that lists exactly the unknown names, in
\* the order of the request; no search and no bootstrap ran.
C8_AsClaimed == SeqRequestWithUnknown => AllUnknownReported

\* C8 (amended): the same on a valid fit. (On a fit that is not valid the
\* not-converged error is raised before the names are looked at.)
C8_OnValidFit == (SeqRequestWithUnknown /\ valid) => AllUnknownReported

\* two unknown names were requested on a valid fit and both were listed, in
\* the order of the request
C8_Witness ==
    /\ out.op = "ci" /\ valid
    /\ out.req.params = SeqParams(<<"y", "x">>)
    /\ out.names = <<"y", "x">>

UnsupportedMethodRequest ==
    /\ out.op = "ci"
    /\ out.req.method \notin {"profile", "boot"}
UnsupportedMethodRaised ==
    /\ out.kind = "raise" /\ out.err = "UnsupportedMethod"
    /\ out.ran = {}
    /\ out.minuitSame /\ out.bootSame

\* C9 (as claimed): ci with a method other than 'profile' and 'boot' raises
\* the unsupported-method error; no search, no minimisation and no bootstrap
\* ran, and the Minuit state and _boot are what they were.
C9_AsClaimed == UnsupportedMethodRequest => UnsupportedMethodRaised

\* C9 (amended): the same on a valid fit and with a params argument that is
\* None, a parameter name or a sequence of parameter names. (The validity of
\* the fit and the params argument are checked before the method is.)
C9_OnAcceptedRequest ==
    (/\ UnsupportedMethodRequest
     /\ valid
     /\ \/ out.req.params.kind = "none"
        \/ /\ out.req.params.kind \in {"str", "seq"}
           /\ SelectSeq(out.req.params.names, IsNoParamName) = <<>>)
        => UnsupportedMethodRaised

\* an unsupported method was requested for a known parameter on a valid fit
\* that holds the result of an earlier search
C9_Witness ==
    /\ UnsupportedMethodRequest /\ valid
    /\ out.req.params = SeqParams(<<"a", "f">>)
    /\ out.err = "UnsupportedMethod"
    /\ \E k \in FreeNames : merrors[k] # NoMError

\* C10 (as claimed): on a valid fit and for known parameters, ci with method
\* 'profile' or 'boot' returns; a cl below 1 is the cl of the result; and for
\* a cl of s >= 1 sigmas, ci called next with the probability 1 - 2 * sf(s) in
\* place of s returns the same interval bounds and the same cl.
C10_SigmaAndProbabilityAgree ==
    (/\ out.op = "ci" /\ valid
     /\ out.req.method \in {"profile", "boot"}
     /\ \/ out.req.params.kind = "none"
        \/ /\ out.req.params.kind \in {"str", "seq"}
           /\ SelectSeq(out.req.params.names, IsNoParamName) = <<>>)
        => /\ out.kind = "ok"
           /\ out.req.cl < One => out.ci.cl = out.req.cl
           /\ out.req.cl >= One =>
                LET req2 == [out.req EXCEPT !.cl = One - TwoSf(out.req.cl)]
                IN  \A a \in Allocs(BootN(req2.n), St) :
                    \A rep \in [SearchTargets(req2, St) -> Reports] :
                        /\ CiOutcome(req2, rep, a, St).kind = "ok"
                        /\ CiOutcome(req2, rep, a, St).ci.interval = out.ci.interval
                        /\ CiOutcome(req2, rep, a, St).ci.cl = out.ci.cl

\* ci was asked, on a valid fit, for parameters that are all known
AcceptedCiRequest ==
    /\ out.op = "ci" /\ valid
    /\ \/ out.req.params.kind = "none"
       \/ /\ out.req.params.kind \in {"str", "seq"}
          /\ SelectSeq(out.req.params.names, IsNoParamName) = <<>>

\* C11 (as claimed): ci with method 'boot', on a valid fit and for known
\* parameters, returns; the ensemble it used is the cached one and has the
\* requested n (10000 for None); for every requested parameter, free or
\* composite, the interval is the pair of the quantiles at 0.5 - cl/2 and
\* 0.5 + cl/2 of its replicates, lower <= upper; and the status is the n and
\* n_valid of the cached result.
C11_BootIntervalFromEnsemble ==
    (AcceptedCiRequest /\ out.req.method = "boot")
        => /\ out.kind = "ok"
           /\ boot # NoObj /\ boot.n = BootN(out.req.n)
           /\ \A k \in Range(out.ci.keys) :
                /\ out.ci.interval[k] =
                      <<Quantile(Replicates(k, boot.n), (One - out.ci.cl) \div 2),
                        Quantile(Replicates(k, boot.n), (One + out.ci.cl) \div 2)>>
                /\ out.ci.interval[k][1] <= out.ci.interval[k][2]
           /\ out.ci.status = [n |-> boot.n, n_valid |-> NValid(boot)]

C13_ProfileStatusAsReported ==
    (AcceptedCiRequest /\ out.req.method = "profile")
        => /\ out.kind = "ok"
           /\ \A k \in Range(out.ci.keys) :
                /\ k \in DOMAIN out.ci.status
                /\ out.ci.status[k].valid =
                      <<Flags(out.rep[k]).lower_valid,
                        Flags(out.rep[k]).upper_valid>>
                /\ out.ci.status[k].at_limit =
                      <<Flags(out.rep[k]).at_lower_limit,
                        Flags(out.rep[k]).at_upper_limit>>
                /\ out.ci.status[k].at_max_fcn =
                      <<Flags(out.rep[k]).at_lower_max_fcn,
                        Flags(out.rep[k]).at_upper_max_fcn>>
                /\ out.ci.status[k].new_min =
                      <<Flags(out.rep[k]).lower_new_min,
                        Flags(out.rep[k]).upper_new_min>>

\* a profile of a composite and a free parameter returned although the search
\* of the one met the cap of function calls and that of the other a new
\* minimum, after an earlier search of the free one that reported a limit
C13_Witness ==
    /\ out.op = "ci" /\ out.kind = "ok"
    /\ out.ci.keys = <<"f", "a">>
    /\ out.rep["f"] = "lower_at_max_fcn"
    /\ out.rep["a"] = "upper_new_min"
    /\ out.ci.status["a"].new_min = <<FALSE, TRUE>>
    /\ merrors["b"].rep = "upper_at_limit"

\* C14: in every ConfidenceInterval that ci returns, whatever the method, the
\* point estimate of every parameter, free or composite, is the fit's, and
\* its error pair is the pair of the signed differences of its two bounds
\* from the point estimate.
C14_ErrorIsBoundMinusEstimate ==
    (out.op = "ci" /\ out.kind = "ok")
        => \A k \in Range(out.ci.keys) :
            /\ out.ci.mle[k] = ResultParams[k]
            /\ out.ci.error[k] =
                  <<out.ci.interval[k][1] - out.ci.mle[k],
                    out.ci.interval[k][2] - out.ci.mle[k]>>

\* an interval was returned for the two free parameters and the composite one,
\* with bounds on either side of the estimates
C14_Witness ==
    /\ out.op = "ci" /\ out.kind = "ok"
    /\ out.ci.keys = <<"a", "b", "f">>
    /\ \A k \in {"a", "b", "f"} :
            /\ out.ci.interval[k][1] < out.ci.mle[k]
            /\ out.ci.mle[k] < out.ci.interval[k][2]
            /\ out.ci.error[k][1] < 0 /\ out.ci.error[k][2] > 0

\* C15: the sign of a channel is +1 where the observed value is above the
\* model, -1 where it is below, +1 where the two are equal, and never 0: in
\* the array of _sign_mle, and for every replicate and channel of the array
\* of _sign_boot.
C15_SignNeverZero ==
    /\ res.op = "_sign_mle" =>
        \A c \in Channels :
            /\ dset.ce_data[c] > dset.ce_model[c] => res.val[c] = 1
            /\ dset.ce_data[c] < dset.ce_model[c] => res.val[c] = -1
            /\ dset.ce_data[c] = dset.ce_model[c] => res.val[c] = 1
            /\ res.val[c] # 0
    /\ (res.op = "_sign_boot" /\ boot # NoObj) =>
        \A r \in Replicas, c \in Channels :
            /\ dset.boot_data[r][c] > dset.boot_models[r][c] => res.val[r][c] = 1
            /\ dset.boot_data[r][c] < dset.boot_models[r][c] => res.val[r][c] = -1
            /\ dset.boot_data[r][c] = dset.boot_models[r][c] => res.val[r][c] = 1
            /\ res.val[r][c] # 0

\* the ensemble sign was read where, in the same channel, one replicate is
\* equal to its model and the other below it
C15_Witness ==
    /\ res.op = "_sign_boot" /\ boot # NoObj
    /\ \E c \in Channels :
        /\ dset.boot_data[1][c] = dset.boot_models[1][c]
        /\ dset.boot_data[2][c] < dset.boot_models[2][c]
        /\ res.val[1][c] = 1 /\ res.val[2][c] = -1

\* the quantile residuals were asked of a Monte-Carlo family, or of a
\* posterior
ClippingCall ==
    \/ /\ res.op = "quantile_residuals_mle"
       /\ dset.statistic \in {"pgstat", "wstat"}
    \/ res.op = "quantile_residuals"

\* C16: in the quantile residuals of a Monte-Carlo family and of a posterior,
\* a channel whose transformed PIT is exactly 0 has the residual ppf(1/nsim)
\* and the upper flag, one whose PIT is exactly 1 has ppf(1 - 1/nsim) and the
\* lower flag, every other channel has neither flag and the residual of its
\* PIT, and no channel has both flags.
C16_EndsSubstitutedAndFlagged ==
    ClippingCall =>
        \A c \in Channels :
            /\ res.used[c] = 0 =>
                /\ res.val[c] = Ppf(Unit \div res.args.nsim)
                /\ FlagAt(res.upper, c)
            /\ res.used[c] = Unit =>
                /\ res.val[c] = Ppf(Unit - Unit \div res.args.nsim)
                /\ FlagAt(res.lower, c)
            /\ res.used[c] \notin {0, Unit} =>
                /\ res.val[c] = Ppf(res.used[c])
                /\ ~FlagAt(res.lower, c) /\ ~FlagAt(res.upper, c)
            /\ ~(FlagAt(res.lower, c) /\ FlagAt(res.upper, c))

\* the residuals of Poisson data with a Poisson background whose one channel
\* has the PIT 0 and the other the PIT 1, without randomisation
C16_Witness ==
    /\ res.op = "quantile_residuals_mle" /\ dset.statistic = "wstat"
    /\ ~res.args.random
    /\ res.used[1] = 0 /\ res.used[2] = Unit
    /\ res.upper.at = <<TRUE, FALSE>> /\ res.lower.at = <<FALSE, TRUE>>
    /\ Finite(res.val[1]) /\ Finite(res.val[2])

\* C17 (as claimed): whatever the statistic and with or without
\* randomisation, every quantile residual of quantile_residuals_mle is
\* finite, and a channel whose transformed PIT is exactly 0 or 1 has the
\* substituted quantile and its flag.
C17_NeverUnbounded ==
    res.op = "quantile_residuals_mle" =>
        \A c \in Channels :
            /\ Finite(res.val[c])
            /\ res.used[c] = 0 =>
                /\ res.val[c] = Ppf(Unit \div Nsim)
                /\ FlagAt(res.upper, c)
            /\ res.used[c] = Unit =>
                /\ res.val[c] = Ppf(Unit - Unit \div Nsim)
                /\ FlagAt(res.lower, c)

\* C18: pit gives two equal arrays for Gaussian data and for Poisson data
\* with a Gaussian background; for Gaussian data the PIT of a channel is the
\* normal CDF of (observed - predicted) / error, which is a half in both
\* arrays where observed and predicted are equal.
C18_ContinuousPitIsOneArray ==
    res.op = "pit" =>
        /\ dset.statistic \in {"chi2", "pgstat"} => res.val[1] = res.val[2]
        /\ dset.statistic = "chi2" =>
            \A c \in Channels :
                /\ res.val[2][c] =
                      NormCdf(((dset.net_counts[c] - dset.on_model[c])
                                    * One * One) \div dset.net_error[c])
                /\ dset.net_counts[c] = dset.on_model[c] =>
                      /\ 2 * res.val[1][c] = Unit
                      /\ 2 * res.val[2][c] = Unit

\* the PIT of Gaussian data was read where one channel is at its model and
\* the other above it
C18_Witness ==
    /\ res.op = "pit" /\ dset.statistic = "chi2"
    /\ dset.net_counts[1] = dset.on_model[1]
    /\ dset.net_counts[2] > dset.on_model[2]
    /\ 2 * res.val[1][1] = Unit
    /\ 2 * res.val[2][2] > Unit

\* C19 (as claimed): residuals, residuals_sim and residuals_ci called with a
\* kind that is none of deviance, pearson and quantile end with an error,
\* with an ensemble and without one.
C19_UnknownKindRaises ==
    (/\ res.op \in {"residuals", "residuals_sim", "residuals_ci"}
     /\ res.args.rtype \notin {"deviance", "pearson", "quantile"})
        => res.kind = "raise"

\* C20: for n PIT values get_pit_ecdf returns arrays over the n + 1 scaled
\* ranks 0, 1/n, ..., 1; the bounds before detrending (the returned ones plus
\* the rank when detrended) lie in [0, 1] with lower <= upper; and at every
\* rank p the probability that a Binomial(n, p) count over n lies within
\* [lower, upper] is at least cl.
C20_BandCoversNominalLevel ==
    res.op = "get_pit_ecdf" =>
        LET n == Len(res.args.pit)
            shift(j) == IF res.args.detrend THEN res.val.scaled_rank[j] ELSE 0
            lo(j) == res.val.lower[j] + shift(j)
            up(j) == res.val.upper[j] + shift(j)
        IN  /\ \A f \in {res.val.scaled_rank, res.val.pit_ecdf, res.val.line,
                          res.val.lower, res.val.upper} : Len(f) = n + 1
            /\ \A j \in 1..(n + 1) :
                /\ res.val.scaled_rank[j] = j - 1
                /\ 0 <= lo(j) /\ lo(j) <= up(j) /\ up(j) <= n
                /\ One * (BinomCdf(up(j), n, j - 1)
                            - BinomCdf(lo(j) - 1, n, j - 1))
                        >= res.args.cl * Pow(n, n)

\* the band of three PIT values at the level 0.5, detrended, whose bounds at
\* the rank 1/3 are a proper interval inside [0, 1]
C20_Witness ==
    /\ res.op = "get_pit_ecdf"
    /\ Len(res.args.pit) = 3 /\ res.args.cl = One \div 2 /\ res.args.detrend
    /\ res.val.lower[2] + 1 < res.val.upper[2] + 1
    /\ res.val.upper[2] + 1 < 3

\* C21: for n residuals get_qq returns five arrays of length n; with no
\* simulated residuals and detrend=False the line is the array of theoretical
\* quantiles; with detrend=True the data, the line and both bands are those of
\* detrend=False minus the theoretical quantiles, element by element, the
\* theoretical quantiles are those of detrend=False, and the arrays of the
\* caller are what they were.
C21_DetrendSubtractsQuantiles ==
    res.op = "get_qq" =>
        \E plain \in {GetQq(res.args.q, FALSE, res.args.cl, res.args.qsim)} :
        \E v \in {res.val} :
        \E n \in {Len(res.args.q)} :
            /\ \A f \in {v.theor, v.q, v.line, v.lower, v.upper} :
                    DOMAIN f = 1..n
            /\ v.theor = Theor(n)
            /\ (res.args.qsim = NoArray /\ ~res.args.detrend) => v.line = v.theor
            /\ res.args.detrend =>
                /\ v.theor = plain.theor
                /\ \A j \in 1..n :
                    /\ v.q[j] = plain.q[j] - plain.theor[j]
                    /\ v.line[j] = plain.line[j] - plain.theor[j]
                    /\ v.lower[j] = plain.lower[j] - plain.theor[j]
                    /\ v.upper[j] = plain.upper[j] - plain.theor[j]
            /\ dset.resid = res.args.q
            /\ dset.resid_sim = res.args.qsim

\* three residuals given out of order were detrended with no simulated
\* residuals: the line is flat and the data are not the sorted residuals
C21_Witness ==
    /\ res.op = "get_qq" /\ res.args.detrend /\ res.args.qsim = NoArray
    /\ res.args.q = <<2 * One, 0 - One, 0>>
    /\ res.val.line = <<0, 0, 0>>
    /\ res.val.q # <<0 - One, 0, 2 * One>>
    /\ res.val.lower[1] < 0 /\ res.val.upper[3] > 0

\* how many of the first i names are names[i]
Occurrence(names, i) == Cardinality({j \in 1..i : names[j] = names[i]})

\* C22 (as claimed): for any sequence of names build_namespace returns a list
\* 'namespace' of the same length, in the order of the names, in which no two
\* entries are equal: a first occurrence is the name itself, and the k-th
\* occurrence, k > 1, is the name with the suffix for k.
C22_NamespaceHasNoDuplicates ==
    res.op = "build_namespace" =>
        /\ res.kind = "value"
        /\ Len(res.val.namespace) = Len(res.args.names)
        /\ \A i, j \in 1..Len(res.val.namespace) :
                res.val.namespace[i] = res.val.namespace[j] => i = j
        /\ \A i \in 1..Len(res.val.namespace) :
                res.val.namespace[i] =
                    res.args.names[i]
                        \o Suffix(Occurrence(res.args.names, i),
                                  res.args.latex, res.args.prime)

\* C23: a step changes the caches and the captured identities of an instance
\* only if it is a call of a diagnostic of that instance or the construction
\* of that instance: nothing computed, cached or invalidated on one instance
\* touches another instance made for the same fit result.
C23_CachesAreNotShared ==
    [][\A i \in Inst2 :
            (old_id'[i] # old_id[i] \/ cache'[i] # cache[i] \/ pure'[i] # pure[i])
                => \/ ret'.kind # "none" /\ ret'.inst = i
                   \/ built'[i] /\ ~built[i]]_vars

\* the ensemble sign was recomputed on the one instance after the ensemble was
\* replaced, while the other instance still holds the value it cached from
\* the first ensemble
C23_Witness ==
    /\ ret.kind = "value" /\ ret.inst = "d1" /\ ret.key = <<"_sign_boot", NoArgs>>
    /\ ret.recomputed /\ ret.srcs = {2}
    /\ cache["d2"][<<"_sign_boot", NoArgs>>].has
    /\ cache["d2"][<<"_sign_boot", NoArgs>>].srcs = {1}
    /\ pure["d2"][<<"_sign_mle", NoArgs>>].has
    /\ ~pure["d1"][<<"_sign_mle", NoArgs>>].has

\* C24 (as claimed): ci, on a valid fit, for known parameters and with method
\* 'profile' or 'boot', returns a ConfidenceInterval whose mle, interval and
\* error each have the requested names as keys, in the order of the request
\* (the parameters of interest for None), with numbers as values.
C24_KeysAsRequested ==
    (AcceptedCiRequest /\ out.req.method \in {"profile", "boot"})
        => /\ out.kind = "ok"
           /\ out.ci.keys = CheckParams(out.req.params).names
           /\ DOMAIN out.ci.mle = Range(CheckParams(out.req.params).names)
           /\ DOMAIN out.ci.interval = DOMAIN out.ci.mle
           /\ DOMAIN out.ci.error = DOMAIN out.ci.mle
           /\ \A k \in Range(out.ci.keys) :
                /\ out.ci.mle[k] \in Int
                /\ \A i \in 1..2 :
                    out.ci.interval[k][i] \in Int /\ out.ci.error[k][i] \in Int

OnResidual(data, model) == PearsonOf(data, model, 0)
OffResidual(d, data, model, c) ==
    PearsonOf(data, model,
              IF d.statistic = "pgstat" THEN d.back_error[c] ELSE 0)

\* C26: for a dataset with background, the Pearson residual of a channel is
\* s * sqrt(r_on^2 + r_off^2), with s = +1 where the observed value is at or
\* above the model and -1 elsewhere, the sign of the deviance residual,
\* whatever the signs of r_on and r_off; and so for every replicate and
\* channel of the residuals of the ensemble.
C26_QuadratureWithSharedSign ==
    /\ (/\ res.op = "residuals" /\ res.args.rtype = "pearson"
        /\ dset.statistic \in {"pgstat", "wstat"}) =>
        \A c \in Channels :
            LET s == IF dset.ce_data[c] >= dset.ce_model[c] THEN 1 ELSE -1
                r_on == OnResidual(dset.spec_counts[c], dset.on_model[c])
                r_off == OffResidual(dset, dset.back_counts[c],
                                     dset.off_model[c], c)
            IN  /\ res.val[c] = s * Sqrt(r_on * r_on + r_off * r_off)
                /\ DevianceResiduals(dset, "mle")[c] = s * Sqrt(dset.deviance[c])
    /\ (/\ res.op = "residuals_sim" /\ res.args.rtype = "pearson"
        /\ dset.statistic \in {"pgstat", "wstat"}
        /\ dset.boot_models # NoArray) =>
        \A i \in Replicas, c \in Channels :
            LET s == IF dset.boot_data[i][c] >= dset.boot_models[i][c]
                     THEN 1 ELSE -1
                r_on == OnResidual(dset.boot_on_data[i][c],
                                   dset.boot_on_models[i][c])
                r_off == OffResidual(dset, dset.boot_off_data[i][c],
                                     dset.boot_off_models[i][c], c)
            IN  /\ res.val[i][c] = s * Sqrt(r_on * r_on + r_off * r_off)
                /\ DevianceResiduals(dset, "boot")[i][c]
                        = s * Sqrt(dset.boot_deviance[i][c])

\* the Pearson residuals of Poisson data with a Poisson background were read
\* where the counts of the on measurement exceed its model, the off counts
\* fall short of theirs and the observed value is below the model: the
\* combined residual is negative
C26_Witness ==
    /\ res.op = "residuals" /\ res.args.rtype = "pearson"
    /\ dset.statistic = "wstat"
    /\ dset.spec_counts[1] > dset.on_model[1]
    /\ dset.back_counts[1] < dset.off_model[1]
    /\ dset.ce_data[1] < dset.ce_model[1]
    /\ res.val[1] < 0

\* C27 (as claimed): the status of a ConfidenceInterval returned by the
\* profile method has an entry for exactly the parameters requested in that
\* call: none for a parameter profiled only in an earlier call, none for a
\* free parameter that was not requested.
C27_StatusOnlyForRequested ==
    (out.op = "ci" /\ out.kind = "ok" /\ out.ci.method = "profile")
        => DOMAIN out.ci.status = Range(out.ci.keys)

\* C28: a step that is a call of ci with method 'profile' leaves _boot, the
\* caches and the captured identities of every PlotData instance as they
\* were, so the diagnostics that were current before it are current after it;
\* and a step that changes _boot is a call of boot, or of ci with method
\* 'boot', for which no ensemble of the requested n was cached.
C28_ProfileLeavesEnsemble ==
    [][/\ (out' # out /\ out'.op = "ci" /\ out'.req.method = "profile")
            => /\ boot' = boot
               /\ cache' = cache /\ old_id' = old_id /\ pure' = pure
               /\ \A i \in Inst : Current(i)' = Current(i)
       /\ boot' # boot
            => /\ out' # out
               /\ \/ out'.op = "boot"
                  \/ out'.op = "ci" /\ out'.req.method = "boot"
               /\ ~out'.hadCached]_vars

\* a profile interval was returned while an ensemble is cached and the
\* ensemble sign read from it before is still in the cache of the instance
C28_Witness ==
    /\ out.op = "ci" /\ out.kind = "ok" /\ out.ci.method = "profile"
    /\ out.ci.keys = <<"f", "b">>
    /\ boot # NoObj
    /\ <<"_sign_boot", NoArgs>> \in Current("d1")
    /\ ret.kind = "value" /\ ret.wasCurrent /\ ~ret.recomputed

\* every device has run its iterations and the host has run every callback
AllReported ==
    \A d \in DOMAIN bar.iter :
        bar.iter[d] = bar.neval_single /\ bar.queue[d] = <<>>

\* C29: for neval a positive multiple of ncores, progress_bar_factory
\* returns its decorator without error, the bar is closed at most once and
\* only after every device has reported its last iteration, and once every
\* device has reported the bar has advanced by neval and is closed once; a
\* neval that is not a multiple of ncores is rejected with ValueError
C29_BarAdvancesAndClosesOnce ==
    bar.state # "none" =>
        IF bar.neval % bar.ncores = 0
        THEN /\ bar.state = "made"
             /\ bar.closed <= 1
             /\ bar.closed = 1 => AllReported
             /\ AllReported => bar.n = bar.neval /\ bar.closed = 1
        ELSE bar.state = "raised" /\ bar.err = "ValueError"

\* the constraints of the settings, on the stored values
SortedAscending(x) == \A i, j \in DOMAIN x : i < j => x[i] <= x[j]
ValidSettings(c) ==
    /\ 0 < c.alpha /\ c.alpha <= One
    /\ c.xscale \in {"linear", "log"}
    /\ c.yscale \in {"linear", "log", "linlog"}
    /\ 0 < c.lin_frac /\ 2 * c.lin_frac <= One
    /\ SortedAscending(c.cl)
    /\ \A i \in DOMAIN c.cl : 0 < c.cl[i] /\ c.cl[i] < One
    /\ c.residuals \in {"deviance", "pearson", "quantile"}

\* the value a request gives its setting is outside the constraint
Violates(attr, args) ==
    CASE attr = "alpha" ->
            args.alpha = NaN \/ args.alpha <= 0 \/ args.alpha > One
      [] attr = "xscale" -> args.xscale \notin {"linear", "log"}
      [] attr = "yscale" -> args.yscale \notin {"linear", "log", "linlog"}
      [] attr = "lin_frac" ->
            args.lin_frac = NaN \/ args.lin_frac <= 0
                \/ 2 * args.lin_frac > One
      [] attr = "cl" ->
            IF args.cl.scalar
            THEN args.cl.num = NaN \/ args.cl.num <= 0 \/ args.cl.num >= One
            ELSE \E i \in DOMAIN args.cl.at :
                    \/ args.cl.at[i] = NaN
                    \/ args.cl.at[i] <= 0
                    \/ args.cl.at[i] >= One
      [] attr = "residuals" ->
            args.residuals \notin {"deviance", "pearson", "quantile"}
      [] OTHER -> FALSE

\* the settings of the object, without the ghosts
StoredSettings(c) ==
    [c EXCEPT !.op = "none", !.attr = "", !.args = Defaults, !.err = "",
              !.ops = 0]

\* C30: after every construction and assignment the stored settings of
\* the PlotConfig satisfy their constraints, and an assignment of a value
\* outside the constraint raises ValueError and leaves every stored
\* setting as it was
C30_SettingsStayValid ==
    [][/\ config'.made => ValidSettings(config')
       /\ (config'.ops # config.ops /\ config'.op = "assign"
            /\ Violates(config'.attr, config'.args))
          => /\ config'.err = "ValueError"
             /\ StoredSettings(config') = StoredSettings(config)]_vars
C30_Witness ==
    /\ config.made /\ config.op = "assign" /\ config.attr = "lin_frac"
    /\ config.args.lin_frac = One \div 2 + 1
    /\ config.err = "ValueError"
    /\ config.alpha = One /\ config.lin_frac = (15 * One) \div 100

====
